---- MODULE Spec2Model ----
(***************************************************************************)
(* A model of the textgrid crate's data model and edit/history engine      *)
(* (src/src/types.rs) and of its validator (src/src/validator.rs).         *)
(*                                                                         *)
(* Times (f64 in the source) are small naturals: the engine only compares  *)
(* and copies them.  Vec indices are 0-based as in the source; the helper  *)
(* operators below translate to TLA+'s 1-based sequences.  A Rust panic    *)
(* (an out-of-range Vec index, remove or insert) ends the run: the result  *)
(* of the call is "panic" and no further call is made.                     *)
(***************************************************************************)
EXTENDS Integers, Sequences, FiniteSets, TLC

\* ---------------------------------------------------------------- bounds

\* Times range over 0..MaxTime.
MaxTime == 2

\* The main specification stops editing once the undo stack holds this many
\* Changes.
MaxEdits == 2

\* The main specification adds no tier beyond this many.
MaxTiers == 2

\* The main specification adds no interval or point to a tier that already
\* holds this many.
MaxItems == 2

\* The history scenario performs at most max_history + MaxOver edits.
MaxOver == 2

\* TextGrid::new: max_history: 100.
max_history == 100

Times == 0..MaxTime

Names == {"a", "b"}

Texts == {"x"}

Marks == {"m"}

\* ------------------------------------------------------- Vec operations

\* Vec::remove(index), index < len.
RemoveAt(s, i) == SubSeq(s, 1, i) \o SubSeq(s, i + 2, Len(s))

\* Vec::insert(index, e), index <= len.
InsertAt(s, i, e) == SubSeq(s, 1, i) \o <<e>> \o SubSeq(s, i + 1, Len(s))

\* VecDeque::pop_back / pop_front: what is left.
Front(s) == SubSeq(s, 1, Len(s) - 1)

Last(s) == s[Len(s)]

\* Iterator::position: the 0-based index of the first element satisfying P,
\* -1 for None.
Position(s, P(_)) ==
    IF \E i \in 1..Len(s) : P(s[i])
    THEN (CHOOSE i \in 1..Len(s) : P(s[i]) /\ \A j \in 1..(i - 1) : ~P(s[j])) - 1
    ELSE -1

\* slice::sort_by on the key Key: a stable sort.
StableSort(s, Key(_)) ==
    LET Rank(i) == Cardinality({j \in 1..Len(s) :
                        \/ Key(s[j]) < Key(s[i])
                        \/ Key(s[j]) = Key(s[i]) /\ j < i}) + 1
    IN  [p \in 1..Len(s) |-> s[CHOOSE i \in 1..Len(s) : Rank(i) = p]]

\* ---------------------------------------------------------------- types

Interval(lo, hi, text) == [xmin |-> lo, xmax |-> hi, text |-> text]

Point(time, mark) == [time |-> time, mark |-> mark]

Tier(name, tier_type, lo, hi, intervals, points) ==
    [name |-> name, tier_type |-> tier_type, xmin |-> lo, xmax |-> hi,
     intervals |-> intervals, points |-> points]

\* A method's outcome on a Tier: Ok(ret) or Err, with the Tier as the call
\* leaves it.
TOk(t, ret) == [ok |-> TRUE, tier |-> t, ret |-> ret]

TErr(t, msg) == [ok |-> FALSE, tier |-> t, ret |-> msg]

\* -------------------------------------------------------- Interval, Tier

\* Interval::split
split(iv, time) ==
    IF time <= iv.xmin \/ time >= iv.xmax
    THEN [ok |-> FALSE]
    ELSE [ok |-> TRUE,
          left |-> Interval(iv.xmin, time, iv.text),
          right |-> Interval(time, iv.xmax, iv.text)]

IntervalKey(iv) == iv.xmin

PointKey(p) == p.time

\* Tier::sort_intervals
sort_intervals(ivs) == StableSort(ivs, IntervalKey)

\* Tier::sort_points
sort_points(ps) == StableSort(ps, PointKey)

\* Tier::add_interval with the new interval put in front of the intervals
\* that start where it starts.
add_interval_front(t, iv) ==
    IF t.tier_type # "IntervalTier"
    THEN TErr(t, "Cannot add interval to PointTier")
    ELSE IF iv.xmin < t.xmin \/ iv.xmax > t.xmax
    THEN TErr(t, "Interval out of tier bounds")
    ELSE TOk([t EXCEPT !.intervals = sort_intervals(<<iv>> \o @)], <<>>)

\* Tier::add_interval
add_interval(t, iv) ==
    IF t.tier_type # "IntervalTier"
    THEN TErr(t, "Cannot add interval to PointTier")
    ELSE IF iv.xmin < t.xmin \/ iv.xmax > t.xmax
    THEN TErr(t, "Interval out of tier bounds")
    ELSE TOk([t EXCEPT !.intervals = sort_intervals(Append(@, iv))], <<>>)

\* Tier::add_point
add_point(t, p) ==
    IF t.tier_type # "PointTier"
    THEN TErr(t, "Cannot add point to IntervalTier")
    ELSE IF p.time < t.xmin \/ p.time > t.xmax
    THEN TErr(t, "Point out of tier bounds")
    ELSE TOk([t EXCEPT !.points = sort_points(Append(@, p))], <<>>)

\* Tier::remove_interval
remove_interval(t, index) ==
    IF t.tier_type # "IntervalTier" \/ index >= Len(t.intervals)
    THEN TErr(t, "Invalid interval removal")
    ELSE TOk([t EXCEPT !.intervals = RemoveAt(@, index)], t.intervals[index + 1])

\* Tier::remove_point
remove_point(t, index) ==
    IF t.tier_type # "PointTier" \/ index >= Len(t.points)
    THEN TErr(t, "Invalid point removal")
    ELSE TOk([t EXCEPT !.points = RemoveAt(@, index)], t.points[index + 1])

\* Tier::split_interval with the two halves put back in the wrong order.
split_interval_swapped(t, index, time) ==
    IF t.tier_type # "IntervalTier" \/ index >= Len(t.intervals)
    THEN TErr(t, "Invalid split operation")
    ELSE LET interval == t.intervals[index + 1]
             removed == RemoveAt(t.intervals, index)
             halves == split(interval, time)
         IN  IF ~halves.ok
             THEN TErr([t EXCEPT !.intervals = removed],
                       "Split time must be within interval bounds")
             ELSE TOk([t EXCEPT !.intervals =
                          InsertAt(InsertAt(removed, index, halves.right),
                                   index + 1, halves.left)],
                      halves.left)

\* Tier::split_interval: the interval is removed before it is split, and
\* a rejected split returns without putting it back.
split_interval(t, index, time) ==
    IF t.tier_type # "IntervalTier" \/ index >= Len(t.intervals)
    THEN TErr(t, "Invalid split operation")
    ELSE LET interval == t.intervals[index + 1]
             removed == RemoveAt(t.intervals, index)
             halves == split(interval, time)
         IN  IF ~halves.ok
             THEN TErr([t EXCEPT !.intervals = removed],
                       "Split time must be within interval bounds")
             ELSE TOk([t EXCEPT !.intervals =
                          InsertAt(InsertAt(removed, index, halves.left),
                                   index + 1, halves.right)],
                      halves.left)

\* The sweep of Tier::merge_intervals over the intervals after the first:
\* `merged` is the list built so far, `current` the interval being grown.
RECURSIVE MergeSweep(_, _, _)
MergeSweep(merged, current, rest) ==
    IF rest = <<>>
    THEN Append(merged, current)
    ELSE LET next == Head(rest)
         IN  IF current.xmax = next.xmin /\ current.text = next.text
             THEN MergeSweep(merged, [current EXCEPT !.xmax = next.xmax], Tail(rest))
             ELSE MergeSweep(Append(merged, current), next, Tail(rest))

\* Tier::merge_intervals that joins touching intervals whatever their text.
merge_intervals_any_text(t) ==
    LET RECURSIVE Sweep(_, _, _)
        Sweep(merged, current, rest) ==
            IF rest = <<>>
            THEN Append(merged, current)
            ELSE IF current.xmax = Head(rest).xmin
            THEN Sweep(merged, [current EXCEPT !.xmax = Head(rest).xmax], Tail(rest))
            ELSE Sweep(Append(merged, current), Head(rest), Tail(rest))
    IN  IF t.tier_type # "IntervalTier" \/ Len(t.intervals) <= 1
        THEN TOk(t, t.intervals)
        ELSE LET before == sort_intervals(t.intervals)
             IN  TOk([t EXCEPT !.intervals = Sweep(<<>>, Head(before), Tail(before))],
                     before)

\* Tier::merge_intervals: ret is the list before merging.
merge_intervals(t) ==
    IF t.tier_type # "IntervalTier" \/ Len(t.intervals) <= 1
    THEN TOk(t, t.intervals)
    ELSE LET before == sort_intervals(t.intervals)
         IN  TOk([t EXCEPT !.intervals = MergeSweep(<<>>, Head(before), Tail(before))],
                 before)

\* Tier::rename
rename(t, new_name) == [t EXCEPT !.name = new_name]

\* ------------------------------------------------------------- TextGrid

\* The TextGrid struct: bounds, tiers, history (the undo stack), redo_stack.
TextGrid(lo, hi, ts, hist, redo_st) ==
    [xmin |-> lo, xmax |-> hi, tiers |-> ts, history |-> hist, redo_stack |-> redo_st]

\* A call's outcome: Ok(()), Err(Format(msg)) or a panic, with the TextGrid
\* as the call leaves it.
Ok(g) == [res |-> "ok", msg |-> "", tg |-> g]

Err(g, msg) == [res |-> "err", msg |-> msg, tg |-> g]

Panic(g) == [res |-> "panic", msg |-> "", tg |-> g]

\* TextGrid::save_change with the oldest entry kept when the stack is full.
save_change_no_evict(g, change) ==
    [g EXCEPT !.history = Append(@, change), !.redo_stack = <<>>]

\* TextGrid::save_change with the redo stack left alone.
save_change_keep_redo(g, change) ==
    [g EXCEPT !.history =
                  Append(IF Len(@) >= max_history THEN Tail(@) ELSE @, change)]

\* TextGrid::save_change with push_front in place of push_back.
save_change_push_front(g, change) ==
    [g EXCEPT !.history =
                  <<change>> \o (IF Len(@) >= max_history THEN Tail(@) ELSE @),
              !.redo_stack = <<>>]

\* TextGrid::save_change
save_change(g, change) ==
    [g EXCEPT !.history =
                  Append(IF Len(@) >= max_history THEN Tail(@) ELSE @, change),
              !.redo_stack = <<>>]

\* TextGrid::get_tier_mut / get_tier: the index of the first tier of that
\* name, -1 for None.
get_tier_mut(g, name) == Position(g.tiers, LAMBDA t : t.name = name)

\* TextGrid::add_tier
add_tier(g, tier) ==
    IF tier.xmin < g.xmin \/ tier.xmax > g.xmax
    THEN Err(g, "Tier bounds must be within TextGrid bounds")
    ELSE LET saved == save_change(g, [op |-> "AddTier", tier |-> tier])
         IN  Ok([saved EXCEPT !.tiers = Append(@, tier)])

\* TextGrid::remove_tier
remove_tier(g, index) ==
    IF index >= Len(g.tiers)
    THEN Err(g, "Tier index out of bounds")
    ELSE LET tier == g.tiers[index + 1]
         IN  Ok(save_change([g EXCEPT !.tiers = RemoveAt(@, index)],
                            [op |-> "RemoveTier", index |-> index, tier |-> tier]))

\* TextGrid::rename_tier
rename_tier(g, old_name, new_name) ==
    LET i == get_tier_mut(g, old_name)
    IN  IF i = -1
        THEN Err(g, "Tier not found")
        ELSE Ok(save_change([g EXCEPT !.tiers[i + 1] = rename(@, new_name)],
                            [op |-> "RenameTier", old_name |-> g.tiers[i + 1].name,
                             new_name |-> new_name]))

\* The default closure of merge_tiers with the next interval's xmax taken
\* in place of the larger one.
merge_strategy_next_xmax(strategy, current, next) ==
    IF strategy = "default"
          /\ (current.text = next.text \/ current.text = "" \/ next.text = "")
    THEN [some |-> TRUE,
          merged |-> Interval(current.xmin, next.xmax,
                              IF current.text = "" THEN next.text ELSE current.text)]
    ELSE [some |-> FALSE]

\* The combinators handed to merge_tiers_with_strategy: "default" is the
\* closure of TextGrid::merge_tiers, "decline" one that always returns None.
merge_strategy(strategy, current, next) ==
    IF strategy = "default"
          /\ (current.text = next.text \/ current.text = "" \/ next.text = "")
    THEN [some |-> TRUE,
          merged |-> Interval(current.xmin,
                              IF current.xmax >= next.xmax THEN current.xmax ELSE next.xmax,
                              IF current.text = "" THEN next.text ELSE current.text)]
    ELSE [some |-> FALSE]

\* The sweep with touching intervals (current.xmax = next.xmin) handed to
\* the combinator too.
RECURSIVE TierSweep_touching(_, _, _, _)
TierSweep_touching(strategy, new_intervals, current, rest) ==
    IF rest = <<>>
    THEN Append(new_intervals, current)
    ELSE LET next == Head(rest)
             m == merge_strategy(strategy, current, next)
         IN  IF current.xmax >= next.xmin /\ m.some
             THEN TierSweep_touching(strategy, new_intervals, m.merged, Tail(rest))
             ELSE TierSweep_touching(strategy, Append(new_intervals, current), next,
                                     Tail(rest))

\* The sweep of merge_tiers_with_strategy over the combined intervals after
\* the first.
RECURSIVE TierSweep(_, _, _, _)
TierSweep(strategy, new_intervals, current, rest) ==
    IF rest = <<>>
    THEN Append(new_intervals, current)
    ELSE LET next == Head(rest)
             m == merge_strategy(strategy, current, next)
         IN  IF current.xmax > next.xmin /\ m.some
             THEN TierSweep(strategy, new_intervals, m.merged, Tail(rest))
             ELSE TierSweep(strategy, Append(new_intervals, current), next, Tail(rest))

\* merge_tiers_with_strategy without the check that both tiers are
\* IntervalTiers.
merge_tiers_with_strategy_any_kind(g, name1, name2, new_name, strategy) ==
    LET i1 == get_tier_mut(g, name1)
        i2 == get_tier_mut(g, name2)
    IN  IF i1 = -1 THEN Err(g, "First tier not found")
        ELSE IF i2 = -1 THEN Err(g, "Second tier not found")
        ELSE LET combined == sort_intervals(g.tiers[i1 + 1].intervals
                                            \o g.tiers[i2 + 1].intervals)
                 new_intervals == IF combined = <<>> THEN <<>>
                                  ELSE TierSweep(strategy, <<>>, Head(combined),
                                                 Tail(combined))
                 new_tier == Tier(new_name, "IntervalTier", g.xmin, g.xmax,
                                  new_intervals, <<>>)
                 saved == save_change(g, [op |-> "MergeTiers", t1 |-> name1, t2 |-> name2,
                                          new_name |-> new_name, tier |-> new_tier])
             IN  Ok([saved EXCEPT !.tiers = Append(@, new_tier)])

\* TextGrid::merge_tiers_with_strategy
merge_tiers_with_strategy(g, name1, name2, new_name, strategy) ==
    LET i1 == get_tier_mut(g, name1)
        i2 == get_tier_mut(g, name2)
    IN  IF i1 = -1 THEN Err(g, "First tier not found")
        ELSE IF i2 = -1 THEN Err(g, "Second tier not found")
        ELSE IF g.tiers[i1 + 1].tier_type # "IntervalTier"
                  \/ g.tiers[i2 + 1].tier_type # "IntervalTier"
        THEN Err(g, "Can only merge IntervalTiers")
        ELSE LET combined == sort_intervals(g.tiers[i1 + 1].intervals
                                            \o g.tiers[i2 + 1].intervals)
                 new_intervals == IF combined = <<>> THEN <<>>
                                  ELSE TierSweep(strategy, <<>>, Head(combined),
                                                 Tail(combined))
                 new_tier == Tier(new_name, "IntervalTier", g.xmin, g.xmax,
                                  new_intervals, <<>>)
                 saved == save_change(g, [op |-> "MergeTiers", t1 |-> name1, t2 |-> name2,
                                          new_name |-> new_name, tier |-> new_tier])
             IN  Ok([saved EXCEPT !.tiers = Append(@, new_tier)])

\* TextGrid::merge_tiers
merge_tiers(g, name1, name2, new_name) ==
    merge_tiers_with_strategy(g, name1, name2, new_name, "default")

\* adjust_bounds that moves the TextGrid's bounds and leaves each tier's.
adjust_bounds_grid_only(g, new_xmin, new_xmax) ==
    IF new_xmin >= new_xmax
    THEN Err(g, "New xmin must be less than xmax")
    ELSE IF \E i \in 1..Len(g.tiers) :
               LET tier == g.tiers[i]
               IN  \/ /\ tier.intervals # <<>>
                      /\ \/ tier.intervals[1].xmin < new_xmin
                         \/ Last(tier.intervals).xmax > new_xmax
                   \/ /\ tier.points # <<>>
                      /\ \/ tier.points[1].time < new_xmin
                         \/ Last(tier.points).time > new_xmax
    THEN Err(g, "New bounds must encompass all tier data")
    ELSE LET saved == save_change(g, [op |-> "AdjustBounds", xmin |-> g.xmin,
                                      xmax |-> g.xmax])
         IN  Ok([saved EXCEPT !.xmin = new_xmin, !.xmax = new_xmax])

\* TextGrid::adjust_bounds
adjust_bounds(g, new_xmin, new_xmax) ==
    IF new_xmin >= new_xmax
    THEN Err(g, "New xmin must be less than xmax")
    ELSE IF \E i \in 1..Len(g.tiers) :
               LET tier == g.tiers[i]
               IN  \/ /\ tier.intervals # <<>>
                      /\ \/ tier.intervals[1].xmin < new_xmin
                         \/ Last(tier.intervals).xmax > new_xmax
                   \/ /\ tier.points # <<>>
                      /\ \/ tier.points[1].time < new_xmin
                         \/ Last(tier.points).time > new_xmax
    THEN Err(g, "New bounds must encompass all tier data")
    ELSE LET saved == save_change(g, [op |-> "AdjustBounds", xmin |-> g.xmin,
                                      xmax |-> g.xmax])
         IN  Ok([saved EXCEPT !.xmin = new_xmin, !.xmax = new_xmax,
                              !.tiers = [i \in 1..Len(g.tiers) |->
                                  [g.tiers[i] EXCEPT !.xmin = new_xmin,
                                                     !.xmax = new_xmax]]])

\* The loop of insert_silence over the intervals of `before`.
\* insert_silence's loop without the part after end: an interval that
\* overlaps the silence keeps only its part before start.
RECURSIVE SilenceSweep_no_tail(_, _, _)
SilenceSweep_no_tail(before, start, end) ==
    IF before = <<>>
    THEN <<>>
    ELSE LET interval == Head(before)
             kept == IF interval.xmax <= start \/ interval.xmin >= end
                     THEN <<interval>>
                     ELSE IF interval.xmin < start
                     THEN <<Interval(interval.xmin, start, interval.text)>>
                     ELSE <<>>
         IN  kept \o SilenceSweep_no_tail(Tail(before), start, end)

RECURSIVE SilenceSweep(_, _, _)
SilenceSweep(before, start, end) ==
    IF before = <<>>
    THEN <<>>
    ELSE LET interval == Head(before)
             kept == IF interval.xmax <= start \/ interval.xmin >= end
                     THEN <<interval>>
                     ELSE (IF interval.xmin < start
                           THEN <<Interval(interval.xmin, start, interval.text)>>
                           ELSE <<>>)
                          \o (IF interval.xmax > end
                              THEN <<Interval(end, interval.xmax, interval.text)>>
                              ELSE <<>>)
         IN  kept \o SilenceSweep(Tail(before), start, end)

\* insert_silence with the silence checked against the TextGrid's bounds
\* and not the tier's.
insert_silence_grid_bounds(g, tier_name, start, end) ==
    LET i == get_tier_mut(g, tier_name)
    IN  IF i = -1 THEN Err(g, "Tier not found")
        ELSE IF g.tiers[i + 1].tier_type # "IntervalTier"
        THEN Err(g, "Can only insert silence in IntervalTier")
        ELSE IF start < g.xmin \/ end > g.xmax \/ start >= end
        THEN Err(g, "Invalid silence bounds")
        ELSE LET before == g.tiers[i + 1].intervals
                 new_intervals == Append(SilenceSweep(before, start, end),
                                         Interval(start, end, ""))
             IN  Ok(save_change(
                        [g EXCEPT !.tiers[i + 1].intervals = sort_intervals(new_intervals)],
                        [op |-> "InsertSilence", tier_name |-> tier_name,
                         before |-> before, after |-> new_intervals]))

\* TextGrid::insert_silence
insert_silence(g, tier_name, start, end) ==
    LET i == get_tier_mut(g, tier_name)
    IN  IF i = -1 THEN Err(g, "Tier not found")
        ELSE IF g.tiers[i + 1].tier_type # "IntervalTier"
        THEN Err(g, "Can only insert silence in IntervalTier")
        ELSE IF start < g.tiers[i + 1].xmin \/ end > g.tiers[i + 1].xmax \/ start >= end
        THEN Err(g, "Invalid silence bounds")
        ELSE LET before == g.tiers[i + 1].intervals
                 new_intervals == Append(SilenceSweep(before, start, end),
                                         Interval(start, end, ""))
             IN  Ok(save_change(
                        [g EXCEPT !.tiers[i + 1].intervals = sort_intervals(new_intervals)],
                        [op |-> "InsertSilence", tier_name |-> tier_name,
                         before |-> before, after |-> new_intervals]))

\* TextGrid::tier_add_interval
tier_add_interval(g, tier_name, interval) ==
    LET i == get_tier_mut(g, tier_name)
    IN  IF i = -1 THEN Err(g, "Tier not found")
        ELSE LET r == add_interval(g.tiers[i + 1], interval)
             IN  IF ~r.ok THEN Err([g EXCEPT !.tiers[i + 1] = r.tier], r.ret)
                 ELSE Ok(save_change([g EXCEPT !.tiers[i + 1] = r.tier],
                                     [op |-> "AddInterval", tier_name |-> tier_name,
                                      interval |-> interval]))

\* TextGrid::tier_remove_interval
tier_remove_interval(g, tier_name, index) ==
    LET i == get_tier_mut(g, tier_name)
    IN  IF i = -1 THEN Err(g, "Tier not found")
        ELSE LET r == remove_interval(g.tiers[i + 1], index)
             IN  IF ~r.ok THEN Err([g EXCEPT !.tiers[i + 1] = r.tier], r.ret)
                 ELSE Ok(save_change([g EXCEPT !.tiers[i + 1] = r.tier],
                                     [op |-> "RemoveInterval", tier_name |-> tier_name,
                                      index |-> index, interval |-> r.ret]))

\* TextGrid::tier_add_point
tier_add_point(g, tier_name, point) ==
    LET i == get_tier_mut(g, tier_name)
    IN  IF i = -1 THEN Err(g, "Tier not found")
        ELSE LET r == add_point(g.tiers[i + 1], point)
             IN  IF ~r.ok THEN Err([g EXCEPT !.tiers[i + 1] = r.tier], r.ret)
                 ELSE Ok(save_change([g EXCEPT !.tiers[i + 1] = r.tier],
                                     [op |-> "AddPoint", tier_name |-> tier_name,
                                      point |-> point]))

\* TextGrid::tier_remove_point
tier_remove_point(g, tier_name, index) ==
    LET i == get_tier_mut(g, tier_name)
    IN  IF i = -1 THEN Err(g, "Tier not found")
        ELSE LET r == remove_point(g.tiers[i + 1], index)
             IN  IF ~r.ok THEN Err([g EXCEPT !.tiers[i + 1] = r.tier], r.ret)
                 ELSE Ok(save_change([g EXCEPT !.tiers[i + 1] = r.tier],
                                     [op |-> "RemovePoint", tier_name |-> tier_name,
                                      index |-> index, point |-> r.ret]))

\* TextGrid::tier_split_interval: `tier.intervals[index]` is read before
\* Tier::split_interval checks the index, so an index past the end panics.
tier_split_interval(g, tier_name, index, time) ==
    LET i == get_tier_mut(g, tier_name)
    IN  IF i = -1 THEN Err(g, "Tier not found")
        ELSE IF index >= Len(g.tiers[i + 1].intervals) THEN Panic(g)
        ELSE LET orig == g.tiers[i + 1].intervals[index + 1]
                 r == split_interval(g.tiers[i + 1], index, time)
             IN  IF ~r.ok THEN Err([g EXCEPT !.tiers[i + 1] = r.tier], r.ret)
                 ELSE Ok(save_change([g EXCEPT !.tiers[i + 1] = r.tier],
                                     [op |-> "SplitInterval", tier_name |-> tier_name,
                                      index |-> index, orig |-> orig, left |-> r.ret]))

\* TextGrid::tier_merge_intervals
tier_merge_intervals(g, tier_name) ==
    LET i == get_tier_mut(g, tier_name)
    IN  IF i = -1 THEN Err(g, "Tier not found")
        ELSE LET r == merge_intervals(g.tiers[i + 1])
             IN  Ok(save_change([g EXCEPT !.tiers[i + 1] = r.tier],
                                [op |-> "MergeIntervals", tier_name |-> tier_name,
                                 before |-> r.ret, after |-> r.tier.intervals]))

\* ----------------------------------------------------------- undo, redo

\* The match of TextGrid::undo on the Change popped from history; g is the
\* TextGrid after the pop.
undo_change(g, change) ==
    LET i == IF change.op \in {"AddTier", "RemoveTier", "AdjustBounds"} THEN -1
             ELSE IF change.op = "RenameTier" THEN get_tier_mut(g, change.new_name)
             ELSE IF change.op = "MergeTiers" THEN -1
             ELSE get_tier_mut(g, change.tier_name)
        redone(c) == Append(g.redo_stack, c)
    IN  CASE change.op = "AddTier" ->
               LET index == Position(g.tiers, LAMBDA t : t.name = change.tier.name)
               IN  IF index = -1 THEN Err(g, "Tier not found")
                   ELSE Ok([g EXCEPT !.tiers = RemoveAt(@, index),
                                     !.redo_stack = redone(change)])
          [] change.op = "RemoveTier" ->
               IF change.index > Len(g.tiers) THEN Panic(g)
               ELSE Ok([g EXCEPT !.tiers = InsertAt(@, change.index, change.tier),
                                 !.redo_stack = redone(change)])
          [] change.op = "AddInterval" ->
               IF i = -1 THEN Err(g, "Tier not found")
               ELSE LET index == Position(g.tiers[i + 1].intervals,
                                          LAMBDA v : v = change.interval)
                    IN  IF index = -1 THEN Err(g, "Interval not found")
                        ELSE Ok([g EXCEPT !.tiers[i + 1].intervals = RemoveAt(@, index),
                                          !.redo_stack = redone(change)])
          [] change.op = "RemoveInterval" ->
               IF i = -1 THEN Err(g, "Tier not found")
               ELSE IF change.index > Len(g.tiers[i + 1].intervals) THEN Panic(g)
               ELSE Ok([g EXCEPT !.tiers[i + 1].intervals =
                                     InsertAt(@, change.index, change.interval),
                                 !.redo_stack = redone(change)])
          [] change.op = "AddPoint" ->
               IF i = -1 THEN Err(g, "Tier not found")
               ELSE LET index == Position(g.tiers[i + 1].points,
                                          LAMBDA q : q = change.point)
                    IN  IF index = -1 THEN Err(g, "Point not found")
                        ELSE Ok([g EXCEPT !.tiers[i + 1].points = RemoveAt(@, index),
                                          !.redo_stack = redone(
                                              [op |-> "RemovePoint",
                                               tier_name |-> change.tier_name,
                                               index |-> index,
                                               point |-> g.tiers[i + 1].points[index + 1]])])
          [] change.op = "RemovePoint" ->
               IF i = -1 THEN Err(g, "Tier not found")
               ELSE IF change.index > Len(g.tiers[i + 1].points) THEN Panic(g)
               ELSE Ok([g EXCEPT !.tiers[i + 1].points =
                                     InsertAt(@, change.index, change.point),
                                 !.redo_stack = redone(
                                     [op |-> "AddPoint", tier_name |-> change.tier_name,
                                      point |-> change.point])])
          [] change.op = "SplitInterval" ->
               IF i = -1 THEN Err(g, "Tier not found")
               ELSE IF change.index >= Len(g.tiers[i + 1].intervals) THEN Panic(g)
               ELSE IF change.index >= Len(g.tiers[i + 1].intervals) - 1
               THEN Panic([g EXCEPT !.tiers[i + 1].intervals = RemoveAt(@, change.index)])
               ELSE Ok([g EXCEPT !.tiers[i + 1].intervals =
                                     InsertAt(RemoveAt(RemoveAt(@, change.index),
                                                       change.index),
                                              change.index, change.orig),
                                 !.redo_stack = redone(change)])
          [] change.op \in {"MergeIntervals", "InsertSilence"} ->
               IF i = -1 THEN Err(g, "Tier not found")
               ELSE Ok([g EXCEPT !.tiers[i + 1].intervals = change.before,
                                 !.redo_stack = redone(
                                     [change EXCEPT !.after = g.tiers[i + 1].intervals])])
          [] change.op = "RenameTier" ->
               IF i = -1 THEN Err(g, "Tier not found")
               ELSE Ok([g EXCEPT !.tiers[i + 1].name = change.old_name,
                                 !.redo_stack = redone(change)])
          [] change.op = "MergeTiers" ->
               LET index == Position(g.tiers, LAMBDA t : t.name = change.new_name)
               IN  IF index = -1 THEN Err(g, "Tier not found")
                   ELSE Ok([g EXCEPT !.tiers = RemoveAt(@, index),
                                     !.redo_stack = redone(change)])
          [] change.op = "AdjustBounds" ->
               Ok([g EXCEPT !.xmin = change.xmin, !.xmax = change.xmax,
                            !.tiers = [k \in 1..Len(g.tiers) |->
                                [g.tiers[k] EXCEPT !.xmin = change.xmin,
                                                   !.xmax = change.xmax]],
                            !.redo_stack = redone([op |-> "AdjustBounds",
                                                   xmin |-> g.xmin, xmax |-> g.xmax])])

\* TextGrid::undo with an empty history reported as Ok(()).
undo_empty_ok(g) ==
    IF g.history = <<>>
    THEN Ok(g)
    ELSE undo_change([g EXCEPT !.history = Front(@)], Last(g.history))

\* TextGrid::undo
undo(g) ==
    IF g.history = <<>>
    THEN Err(g, "No more actions to undo")
    ELSE undo_change([g EXCEPT !.history = Front(@)], Last(g.history))

\* The match of TextGrid::redo on the Change popped from redo_stack; g is
\* the TextGrid after the pop.
redo_change(g, change) ==
    CASE change.op = "AddTier" ->
           Ok(save_change([g EXCEPT !.tiers = Append(@, change.tier)], change))
      [] change.op = "RemoveTier" ->
           IF change.index < Len(g.tiers)
                 /\ g.tiers[change.index + 1].name = change.tier.name
           THEN Ok(save_change([g EXCEPT !.tiers = RemoveAt(@, change.index)],
                               [change EXCEPT !.tier = g.tiers[change.index + 1]]))
           ELSE Err(g, "Tier not found or index mismatch for redo")
      [] change.op = "AddInterval" ->
           tier_add_interval(g, change.tier_name, change.interval)
      [] change.op = "RemoveInterval" ->
           tier_remove_interval(g, change.tier_name, change.index)
      [] change.op = "AddPoint" ->
           tier_add_point(g, change.tier_name, change.point)
      [] change.op = "RemovePoint" ->
           tier_remove_point(g, change.tier_name, change.index)
      [] change.op = "SplitInterval" ->
           tier_split_interval(g, change.tier_name, change.index, change.left.xmax)
      [] change.op = "MergeIntervals" ->
           tier_merge_intervals(g, change.tier_name)
      [] change.op = "RenameTier" ->
           rename_tier(g, change.old_name, change.new_name)
      [] change.op = "MergeTiers" ->
           add_tier(g, change.tier)
      [] change.op = "AdjustBounds" ->
           adjust_bounds(g, change.xmin, change.xmax)
      [] change.op = "InsertSilence" ->
           LET i == get_tier_mut(g, change.tier_name)
           IN  IF i = -1 THEN Err(g, "Tier not found")
               ELSE Ok(save_change([g EXCEPT !.tiers[i + 1].intervals = change.after],
                                   change))

\* TextGrid::redo
redo(g) ==
    IF g.redo_stack = <<>>
    THEN Err(g, "No more actions to redo")
    ELSE redo_change([g EXCEPT !.redo_stack = Front(@)], Last(g.redo_stack))

\* ------------------------------------------------------------ validator

\* validate_textgrid, the IntervalTier arm: prev_xmax runs over the
\* intervals from tier.xmin.
RECURSIVE IntervalsOk(_, _)
IntervalsOk(prev_xmax, intervals) ==
    IF intervals = <<>>
    THEN TRUE
    ELSE LET interval == Head(intervals)
         IN  /\ ~(interval.xmin < prev_xmax)
             /\ ~(interval.xmin >= interval.xmax)
             /\ IntervalsOk(interval.xmax, Tail(intervals))

\* validate_textgrid, the checks on one tier of a TextGrid with bounds lo, hi.
TierOk(lo, hi, tier) ==
    /\ ~(tier.xmin < lo \/ tier.xmax > hi)
    /\ ~(tier.xmin >= tier.xmax)
    /\ IF tier.tier_type = "IntervalTier"
       THEN IntervalsOk(tier.xmin, tier.intervals)
       ELSE \A k \in 1..Len(tier.points) :
                ~(tier.points[k].time < tier.xmin \/ tier.points[k].time > tier.xmax)

\* validate_textgrid: TRUE for Ok(()).
validate_textgrid(g) ==
    /\ ~(g.xmin >= g.xmax)
    /\ \A k \in 1..Len(g.tiers) : TierOk(g.xmin, g.xmax, g.tiers[k])

\* -------------------------------------------------------- state machine

VARIABLES
    xmin,        \* TextGrid.xmin
    xmax,        \* TextGrid.xmax
    tiers,       \* TextGrid.tiers
    history,     \* TextGrid.history, the undo stack, oldest first
    redo_stack,  \* TextGrid.redo_stack
    last,        \* the last call: its name, its result and, if Ok, its arguments
    shadow,      \* for each Change of history, the Document before that edit
    pat,         \* where the run stands in "n edits, k undos, r redos"
    file         \* the file the codecs write and read: its extension and content

vars == <<xmin, xmax, tiers, history, redo_stack, last, shadow, pat, file>>

\* The TextGrid the variables hold.
TG == TextGrid(xmin, xmax, tiers, history, redo_stack)

\* The Document of a TextGrid: its bounds and tiers, without the history.
Doc(g) == [xmin |-> g.xmin, xmax |-> g.xmax, tiers |-> g.tiers]

NoDoc == [xmin |-> 0, xmax |-> 0, tiers |-> <<>>]

Min(a, b) == IF a <= b THEN a ELSE b

\* The undo of this step is one of the k <= n undos that follow n
\* successful edits made with no other call in between.
InUndoRun == pat.r = 0 /\ pat.k < Min(pat.n, max_history)

\* The redo of this step is one of the k redos that follow those k undos.
InRedoRun == pat.k > 0 /\ pat.r < pat.k

PatReset == [n |-> 0, k |-> 0, r |-> 0, post |-> NoDoc]

\* No file has been written.
NoFile == [ext |-> "", data |-> "", short_format |-> FALSE, doc |-> NoDoc]

\* TextGrid::new
Init ==
    /\ xmin = 0
    /\ xmax = MaxTime
    /\ tiers = <<>>
    /\ history = <<>>
    /\ redo_stack = <<>>
    /\ last = [op |-> "new", res |-> "ok", msg |-> "", call |-> [name |-> "new"],
               after_edit |-> FALSE, cleared |-> FALSE]
    /\ shadow = <<>>
    /\ pat = PatReset
    /\ file = NoFile

\* l records a successful call of one of the twelve mutating operations.
IsEdit(l) == l.res = "ok" /\ l.op \notin {"new", "undo", "redo"}

\* The variables after a call with outcome r; kind is "edit", "undo" or "redo".
\* last.cleared: the call was an edit that found undone Changes on the redo
\* stack (or, for undo and redo, the call right before was such an edit);
\* last.after_edit: the call right before was a successful edit.
Step(kind, call, r) ==
    /\ xmin' = r.tg.xmin
    /\ xmax' = r.tg.xmax
    /\ tiers' = r.tg.tiers
    /\ history' = r.tg.history
    /\ redo_stack' = r.tg.redo_stack
    /\ last' = [op |-> call.name, res |-> r.res, msg |-> r.msg,
                call |-> IF r.res = "ok" THEN call ELSE [name |-> call.name],
                after_edit |-> kind # "edit" /\ IsEdit(last),
                cleared |-> IF kind = "edit"
                            THEN r.res = "ok" /\ redo_stack # <<>>
                            ELSE IsEdit(last) /\ last.cleared]
    /\ shadow' =
          IF kind = "undo"
          THEN (IF history = <<>> THEN shadow ELSE Front(shadow))
          ELSE IF r.res = "ok"
          THEN Append(IF Len(shadow) >= max_history THEN Tail(shadow) ELSE shadow,
                      Doc(TG))
          ELSE shadow
    /\ pat' =
          IF r.res # "ok" THEN PatReset
          ELSE IF kind = "edit"
          THEN [n |-> IF pat.k = 0 THEN pat.n + 1 ELSE 1, k |-> 0, r |-> 0,
                post |-> NoDoc]
          ELSE IF kind = "undo"
          THEN (IF InUndoRun
                THEN [pat EXCEPT !.k = @ + 1,
                                 !.post = IF pat.k = 0 THEN Doc(TG) ELSE @]
                ELSE PatReset)
          ELSE (IF InRedoRun
                THEN [pat EXCEPT !.n = 0, !.r = @ + 1]
                ELSE PatReset)
    /\ UNCHANGED file

\* No call has panicked.
Running == last.res # "panic"

\* The main specification makes an edit call only while the undo stack is
\* short of MaxEdits Changes.
CanEdit == Running /\ Len(history) < MaxEdits

\* The tiers handed to add_tier.
TierInputs ==
    {Tier(name, "IntervalTier", 0, MaxTime, ivs, <<>>) :
        name \in Names, ivs \in {<<>>, <<Interval(0, 1, "x")>>}}
    \cup {Tier(name, "PointTier", 0, 1, <<>>, <<>>) : name \in Names}

\* The intervals handed to tier_add_interval.
IntervalInputs ==
    {Interval(lo, hi, text) : lo \in Times, hi \in Times, text \in Texts}

Strategies == {"default", "decline"}

\* No two tiers are merged whose intervals together exceed MaxItems.
MergeFits(name1, name2) ==
    LET i1 == get_tier_mut(TG, name1)
        i2 == get_tier_mut(TG, name2)
    IN  (i1 # -1 /\ i2 # -1) =>
            Len(tiers[i1 + 1].intervals) + Len(tiers[i2 + 1].intervals) <= MaxItems

AddTier ==
    /\ CanEdit
    /\ Len(tiers) < MaxTiers
    /\ \E tier \in TierInputs :
          Step("edit", [name |-> "add_tier", tier |-> tier], add_tier(TG, tier))

RemoveTier ==
    /\ CanEdit
    /\ \E index \in 0..MaxTiers :
          Step("edit", [name |-> "remove_tier", index |-> index], remove_tier(TG, index))

RenameTier ==
    /\ CanEdit
    /\ \E old_name \in Names, new_name \in Names :
          Step("edit", [name |-> "rename_tier", old_name |-> old_name,
                        new_name |-> new_name],
               rename_tier(TG, old_name, new_name))

MergeTiers ==
    /\ CanEdit
    /\ Len(tiers) < MaxTiers
    /\ \E name1 \in Names, name2 \in Names, new_name \in Names, strategy \in Strategies :
          /\ MergeFits(name1, name2)
          /\ Step("edit", [name |-> "merge_tiers_with_strategy", name1 |-> name1,
                           name2 |-> name2, new_name |-> new_name],
                  merge_tiers_with_strategy(TG, name1, name2, new_name, strategy))

AdjustBounds ==
    /\ CanEdit
    /\ \E new_xmin \in Times, new_xmax \in Times :
          Step("edit", [name |-> "adjust_bounds", new_xmin |-> new_xmin,
                        new_xmax |-> new_xmax],
               adjust_bounds(TG, new_xmin, new_xmax))

InsertSilence ==
    /\ CanEdit
    /\ \E tier_name \in Names, start \in Times, end \in Times :
          Step("edit", [name |-> "insert_silence", tier_name |-> tier_name,
                        start |-> start, end |-> end],
               insert_silence(TG, tier_name, start, end))

\* No interval or point is added to a tier that holds MaxItems of them.
HasRoom(tier_name) ==
    \A k \in 1..Len(tiers) :
        tiers[k].name = tier_name =>
            Len(tiers[k].intervals) < MaxItems /\ Len(tiers[k].points) < MaxItems

TierAddInterval ==
    /\ CanEdit
    /\ \E tier_name \in Names, interval \in IntervalInputs :
          /\ HasRoom(tier_name)
          /\ interval.xmin < interval.xmax
          /\ Step("edit", [name |-> "tier_add_interval", tier_name |-> tier_name,
                           interval |-> interval],
                  tier_add_interval(TG, tier_name, interval))

TierRemoveInterval ==
    /\ CanEdit
    /\ \E tier_name \in Names, index \in 0..MaxItems :
          Step("edit", [name |-> "tier_remove_interval", tier_name |-> tier_name,
                        index |-> index],
               tier_remove_interval(TG, tier_name, index))

TierAddPoint ==
    /\ CanEdit
    /\ \E tier_name \in Names, time \in Times, mark \in Marks :
          /\ HasRoom(tier_name)
          /\ Step("edit", [name |-> "tier_add_point", tier_name |-> tier_name,
                           point |-> Point(time, mark)],
                  tier_add_point(TG, tier_name, Point(time, mark)))

TierRemovePoint ==
    /\ CanEdit
    /\ \E tier_name \in Names, index \in 0..MaxItems :
          Step("edit", [name |-> "tier_remove_point", tier_name |-> tier_name,
                        index |-> index],
               tier_remove_point(TG, tier_name, index))

TierSplitInterval ==
    /\ CanEdit
    /\ \E tier_name \in Names, index \in 0..MaxItems, time \in Times :
          Step("edit", [name |-> "tier_split_interval", tier_name |-> tier_name,
                        index |-> index, time |-> time],
               tier_split_interval(TG, tier_name, index, time))

TierMergeIntervals ==
    /\ CanEdit
    /\ \E tier_name \in Names :
          Step("edit", [name |-> "tier_merge_intervals", tier_name |-> tier_name],
               tier_merge_intervals(TG, tier_name))

Undo ==
    /\ Running
    /\ Step("undo", [name |-> "undo"], undo(TG))

Redo ==
    /\ Running
    /\ Step("redo", [name |-> "redo"], redo(TG))

Next ==
    \/ AddTier
    \/ RemoveTier
    \/ RenameTier
    \/ MergeTiers
    \/ AdjustBounds
    \/ InsertSilence
    \/ TierAddInterval
    \/ TierRemoveInterval
    \/ TierAddPoint
    \/ TierRemovePoint
    \/ TierSplitInterval
    \/ TierMergeIntervals
    \/ Undo
    \/ Redo

Spec == Init /\ [][Next]_vars

\* ----------------------------------------------------- history scenario
\* More than max_history successful edits with no undo in between, then
\* undo() until it fails.  The edits are add_tier of one IntervalTier named
\* "a" (at most twice) and, on the first tier of that name, tier_add_interval
\* when it holds no interval and tier_remove_interval when it holds one.

HistTier == Tier("a", "IntervalTier", 0, MaxTime, <<>>, <<>>)

HistInterval == Interval(0, 1, "x")

\* No undo has been called yet, and the scenario's edits are not used up.
HistEditing ==
    /\ Running
    /\ last.op \notin {"undo", "redo"}
    /\ pat.n < max_history + MaxOver

HistAddTier ==
    /\ HistEditing
    /\ Len(tiers) < 2
    /\ Step("edit", [name |-> "add_tier", tier |-> HistTier], add_tier(TG, HistTier))

HistAddInterval ==
    /\ HistEditing
    /\ tiers # <<>>
    /\ tiers[1].intervals = <<>>
    /\ Step("edit", [name |-> "tier_add_interval", tier_name |-> "a",
                     interval |-> HistInterval],
            tier_add_interval(TG, "a", HistInterval))

HistRemoveInterval ==
    /\ HistEditing
    /\ tiers # <<>>
    /\ tiers[1].intervals # <<>>
    /\ Step("edit", [name |-> "tier_remove_interval", tier_name |-> "a", index |-> 0],
            tier_remove_interval(TG, "a", 0))

HistUndo ==
    /\ Running
    /\ \/ IsEdit(last) /\ pat.n > max_history
       \/ last.op = "undo" /\ last.res = "ok"
    /\ Step("undo", [name |-> "undo"], undo(TG))

NextHist ==
    \/ HistAddTier
    \/ HistAddInterval
    \/ HistRemoveInterval
    \/ HistUndo

SpecHist == Init /\ [][NextHist]_vars

\* ---------------------------------------------------- document scenario
\* A Document is drawn from a bounded set, valid or not, and is validated,
\* written and read back.  In this scenario a time t stands for t/2 seconds,
\* so that 0.5 s is a time: [0,2] s is [0,4] here.

\* The IntervalTier arm with a check that each interval starts where the
\* one before it ended.
RECURSIVE IntervalsMsg_contiguous(_, _)
IntervalsMsg_contiguous(prev_xmax, intervals) ==
    IF intervals = <<>>
    THEN ""
    ELSE LET interval == Head(intervals)
         IN  IF interval.xmin < prev_xmax
             THEN "Overlapping intervals detected"
             ELSE IF interval.xmin > prev_xmax
             THEN "Gap between intervals detected"
             ELSE IF interval.xmin >= interval.xmax
             THEN "Interval xmin must be less than xmax"
             ELSE IntervalsMsg_contiguous(interval.xmax, Tail(intervals))

\* The IntervalTier arm with <= in place of < in the overlap check.
RECURSIVE IntervalsMsg_no_touch(_, _)
IntervalsMsg_no_touch(prev_xmax, intervals) ==
    IF intervals = <<>>
    THEN ""
    ELSE LET interval == Head(intervals)
         IN  IF interval.xmin <= prev_xmax
             THEN "Overlapping intervals detected"
             ELSE IF interval.xmin >= interval.xmax
             THEN "Interval xmin must be less than xmax"
             ELSE IntervalsMsg_no_touch(interval.xmax, Tail(intervals))

\* validate_textgrid, the IntervalTier arm: the message of the first failed
\* check, "" if there is none.
RECURSIVE IntervalsMsg(_, _)
IntervalsMsg(prev_xmax, intervals) ==
    IF intervals = <<>>
    THEN ""
    ELSE LET interval == Head(intervals)
         IN  IF interval.xmin < prev_xmax
             THEN "Overlapping intervals detected"
             ELSE IF interval.xmin >= interval.xmax
             THEN "Interval xmin must be less than xmax"
             ELSE IntervalsMsg(interval.xmax, Tail(intervals))

\* validate_textgrid, the PointTier arm.
PointsMsg(tier) ==
    IF \E k \in 1..Len(tier.points) :
           tier.points[k].time < tier.xmin \/ tier.points[k].time > tier.xmax
    THEN "Point time out of tier bounds"
    ELSE ""

\* validate_textgrid, the loop over the tiers.
RECURSIVE TiersMsg(_, _, _)
TiersMsg(lo, hi, ts) ==
    IF ts = <<>>
    THEN ""
    ELSE LET tier == Head(ts)
             m == IF tier.xmin < lo \/ tier.xmax > hi
                  THEN "Tier bounds must be within TextGrid bounds"
                  ELSE IF tier.xmin >= tier.xmax
                  THEN "Tier xmin must be less than xmax"
                  ELSE IF tier.tier_type = "IntervalTier"
                  THEN IntervalsMsg(tier.xmin, tier.intervals)
                  ELSE PointsMsg(tier)
         IN  IF m # "" THEN m ELSE TiersMsg(lo, hi, Tail(ts))

\* validate_textgrid as a Result: Ok(()) or Err(Format(msg)).
validate_result(g) ==
    IF g.xmin >= g.xmax
    THEN Err(g, "TextGrid xmin must be less than xmax")
    ELSE LET m == TiersMsg(g.xmin, g.xmax, g.tiers)
         IN  IF m = "" THEN Ok(g) ELSE Err(g, m)

\* ------------------------------------------------------------- strings
\* A String is a TLA+ string; SubSeq(s, i, i) is its i-th character.

\* str::starts_with
starts_with(s, p) == Len(s) >= Len(p) /\ SubSeq(s, 1, Len(p)) = p

\* str::ends_with
ends_with(s, p) == Len(s) >= Len(p) /\ SubSeq(s, Len(s) - Len(p) + 1, Len(s)) = p

\* str::contains
contains(s, p) == \E i \in 1..(Len(s) - Len(p) + 1) : SubSeq(s, i, i + Len(p) - 1) = p

\* char::is_whitespace, on the characters the scenario's files hold.
is_whitespace(c) == c \in {" ", "\t", "\n", "\r"}

\* str::trim
trim(s) ==
    LET solid(i) == ~is_whitespace(SubSeq(s, i, i))
    IN  IF \A i \in 1..Len(s) : ~solid(i)
        THEN ""
        ELSE SubSeq(s, CHOOSE i \in 1..Len(s) :
                           solid(i) /\ \A j \in 1..(i - 1) : ~solid(j),
                       CHOOSE i \in 1..Len(s) :
                           solid(i) /\ \A j \in (i + 1)..Len(s) : ~solid(j))

\* The strings of a list, one after the other.
RECURSIVE Concat(_)
Concat(ss) == IF ss = <<>> THEN "" ELSE Head(ss) \o Concat(Tail(ss))

\* The lists of a list, one after the other.
RECURSIVE Flatten(_)
Flatten(ss) == IF ss = <<>> THEN <<>> ELSE Head(ss) \o Flatten(Tail(ss))

\* writeln!: the line and a newline.
writeln(line) == line \o "\n"

\* BufRead::lines: the text split at each "\n", the "\n" (and a "\r" before
\* it) dropped; a last line with no "\n" counts if it is not empty.
RECURSIVE lines(_)
lines(s) ==
    LET breaks == {i \in 1..Len(s) : SubSeq(s, i, i) = "\n"}
    IN  IF s = ""
        THEN <<>>
        ELSE IF breaks = {}
        THEN <<s>>
        ELSE LET i == CHOOSE b \in breaks : \A c \in breaks : b <= c
                 line == SubSeq(s, 1, i - 1)
             IN  <<IF ends_with(line, "\r")
                   THEN SubSeq(line, 1, Len(line) - 1)
                   ELSE line>>
                 \o lines(SubSeq(s, i + 1, Len(s)))

\* Display for f64, for a time of t half seconds: "2" for 2.0, "0.5" for 0.5.
fmt_f64(t) ==
    IF t % 2 = 0 THEN ToString(t \div 2) ELSE ToString(t \div 2) \o ".5"

\* Display for usize.
fmt_usize(n) == ToString(n)

is_digit(c) == c \in {"0", "1", "2", "3", "4", "5", "6", "7", "8", "9"}

digit(c) == CHOOSE d \in 0..9 : ToString(d) = c

\* The number a string of decimal digits writes ("" writes 0).
RECURSIVE digits_value(_)
digits_value(s) ==
    IF s = ""
    THEN 0
    ELSE 10 * digits_value(SubSeq(s, 1, Len(s) - 1)) + digit(SubSeq(s, Len(s), Len(s)))

\* str::parse::<f64>, returning the time in half seconds: digits with an
\* optional "." and fraction digits, at least one digit in all.  The files
\* of the scenario hold no sign, no exponent, no "inf" or "NaN", and no
\* fraction other than zeros or a 5 followed by zeros.
parse_f64(s) ==
    LET dots == {i \in 1..Len(s) : SubSeq(s, i, i) = "."}
        dot == IF dots = {} THEN Len(s) + 1 ELSE CHOOSE i \in dots : \A j \in dots : i <= j
        whole == SubSeq(s, 1, dot - 1)
        frac == SubSeq(s, dot + 1, Len(s))
        all_digits(x) == \A i \in 1..Len(x) : is_digit(SubSeq(x, i, i))
        zeros(x) == \A i \in 1..Len(x) : SubSeq(x, i, i) = "0"
    IN  IF /\ all_digits(whole)
           /\ all_digits(frac)
           /\ Len(whole) + Len(frac) > 0
           /\ zeros(frac) \/ (SubSeq(frac, 1, 1) = "5" /\ zeros(SubSeq(frac, 2, Len(frac))))
        THEN [ok |-> TRUE,
              val |-> 2 * digits_value(whole) + (IF zeros(frac) THEN 0 ELSE 1)]
        ELSE [ok |-> FALSE, val |-> 0]

\* An f64 cast with `as usize`: the whole part of a time that is not negative.
as_usize(t) == t \div 2

\* ---------------------------------------------------------- text writer

\* The class name written for a tier type.
class_name(tier_type) ==
    IF tier_type = "IntervalTier" THEN "IntervalTier" ELSE "TextTier"

\* write_long_format: the lines of the j-th interval of a tier.
long_interval(j, interval) ==
    writeln("        intervals [" \o fmt_usize(j) \o "]:")
    \o writeln("            xmin = " \o fmt_f64(interval.xmin))
    \o writeln("            xmax = " \o fmt_f64(interval.xmax))
    \o writeln("            text = \"" \o interval.text \o "\"")

\* write_long_format: the lines of the j-th point of a tier.
long_point(j, point) ==
    writeln("        points [" \o fmt_usize(j) \o "]:")
    \o writeln("            time = " \o fmt_f64(point.time))
    \o writeln("            mark = \"" \o point.mark \o "\"")

\* write_long_format: the lines of the i-th tier.
long_tier(i, tier) ==
    writeln("    item [" \o fmt_usize(i) \o "]:")
    \o writeln("        class = \"" \o class_name(tier.tier_type) \o "\"")
    \o writeln("        name = \"" \o tier.name \o "\"")
    \o writeln("        xmin = " \o fmt_f64(tier.xmin))
    \o writeln("        xmax = " \o fmt_f64(tier.xmax))
    \o (IF tier.tier_type = "IntervalTier"
        THEN writeln("        intervals: size = " \o fmt_usize(Len(tier.intervals)))
             \o Concat([j \in 1..Len(tier.intervals) |->
                           long_interval(j, tier.intervals[j])])
        ELSE writeln("        points: size = " \o fmt_usize(Len(tier.points)))
             \o Concat([j \in 1..Len(tier.points) |->
                           long_point(j, tier.points[j])]))

\* write_long_format: the text written to the file.
write_long_format(g) ==
    writeln("File type = \"ooTextFile\"")
    \o writeln("Object class = \"TextGrid\"")
    \o writeln("xmin = " \o fmt_f64(g.xmin))
    \o writeln("xmax = " \o fmt_f64(g.xmax))
    \o writeln("tiers? <exists>")
    \o writeln("size = " \o fmt_usize(Len(g.tiers)))
    \o writeln("item []:")
    \o Concat([i \in 1..Len(g.tiers) |-> long_tier(i, g.tiers[i])])

\* write_short_format: the lines of one interval.
short_interval(interval) ==
    writeln(fmt_f64(interval.xmin))
    \o writeln(fmt_f64(interval.xmax))
    \o writeln("\"" \o interval.text \o "\"")

\* write_short_format: the lines of one point.
short_point(point) ==
    writeln(fmt_f64(point.time))
    \o writeln("\"" \o point.mark \o "\"")

\* write_short_format: the lines of one tier.
short_tier(tier) ==
    writeln("\"" \o class_name(tier.tier_type) \o "\"")
    \o writeln("\"" \o tier.name \o "\"")
    \o writeln(fmt_f64(tier.xmin))
    \o writeln(fmt_f64(tier.xmax))
    \o (IF tier.tier_type = "IntervalTier"
        THEN writeln(fmt_usize(Len(tier.intervals)))
             \o Concat([j \in 1..Len(tier.intervals) |->
                           short_interval(tier.intervals[j])])
        ELSE writeln(fmt_usize(Len(tier.points)))
             \o Concat([j \in 1..Len(tier.points) |-> short_point(tier.points[j])]))

\* write_short_format: the text written to the file.
write_short_format(g) ==
    writeln("File type = \"ooTextFile\"")
    \o writeln("Object class = \"TextGrid\"")
    \o writeln(fmt_f64(g.xmin))
    \o writeln(fmt_f64(g.xmax))
    \o writeln(fmt_usize(Len(g.tiers)))
    \o Concat([i \in 1..Len(g.tiers) |-> short_tier(g.tiers[i])])

\* write_textgrid: the content of the file it creates.
write_textgrid(g, short_format) ==
    IF short_format THEN write_short_format(g) ELSE write_long_format(g)

\* ---------------------------------------------------------- text parser
\* The iterator over the lines is the list of the lines not yet consumed;
\* lines.next() yields Head (None on the empty list) and leaves Rest.

Rest(ls) == IF ls = <<>> THEN <<>> ELSE Tail(ls)

\* A parsed field, or the error or panic that ends the parse.
POk(val) == [res |-> "ok", msg |-> "", val |-> val]

PErr(msg) == [res |-> "err", msg |-> msg, val |-> 0]

PPanic == [res |-> "panic", msg |-> "", val |-> 0]

\* str::parse::<f64> with the map_err of parse_value and parse_bare_value.
parse_number(s) ==
    LET n == parse_f64(s)
    IN  IF n.ok
        THEN POk(n.val)
        ELSE PErr("Failed to parse number: "
                  \o (IF s = "" THEN "cannot parse float from empty string"
                      ELSE "invalid float literal"))

\* parse_value(lines.next(), prefix)
parse_value(ls, prefix) ==
    IF ls = <<>>
    THEN PErr("Unexpected end of file")
    ELSE LET line == Head(ls)
         IN  IF ~starts_with(trim(line), prefix)
             THEN PErr("Expected prefix '" \o prefix \o "' in '" \o line \o "'")
             ELSE parse_number(SubSeq(trim(line), Len(prefix) + 1, Len(trim(line))))

\* parse_bare_value(lines.next())
parse_bare_value(ls) ==
    IF ls = <<>>
    THEN PErr("Unexpected end of file")
    ELSE parse_number(trim(Head(ls)))

\* The check and the slice [1..len - 1] that end extract_quoted_value and
\* extract_quoted_value_short; the slice panics on the one-character string
\* "\"", where it starts at 1 and ends at 0.
unquote(stripped) ==
    IF starts_with(stripped, "\"") /\ ends_with(stripped, "\"")
    THEN IF Len(stripped) < 2
         THEN PPanic
         ELSE POk(SubSeq(stripped, 2, Len(stripped) - 1))
    ELSE PErr("Expected quoted string")

\* extract_quoted_value(lines.next(), prefix)
extract_quoted_value(ls, prefix) ==
    IF ls = <<>>
    THEN PErr("Unexpected end of file")
    ELSE LET line == Head(ls)
         IN  IF ~starts_with(trim(line), prefix)
             THEN PErr("Expected prefix '" \o prefix \o "' in '" \o line \o "'")
             ELSE unquote(SubSeq(trim(line), Len(prefix) + 1, Len(trim(line))))

\* extract_quoted_value_short(lines.next())
extract_quoted_value_short(ls) ==
    IF ls = <<>>
    THEN PErr("Unexpected end of file")
    ELSE unquote(trim(Head(ls)))

\* The first of the results that is not Ok, or else the result last.
FirstFailure(results, last_result) ==
    IF \E k \in 1..Len(results) : results[k].res # "ok"
    THEN results[CHOOSE k \in 1..Len(results) :
                     /\ results[k].res # "ok"
                     /\ \A j \in 1..(k - 1) : results[j].res = "ok"]
    ELSE last_result

\* The list left after n calls of lines.next().
RECURSIVE Skip(_, _)
Skip(ls, n) == IF n = 0 THEN ls ELSE Skip(Rest(ls), n - 1)

\* The result of a loop that parsed the items val and left the lines rest.
PList(val, rest) == [res |-> "ok", msg |-> "", val |-> val, rest |-> rest]

\* parse_long_format: the loop over the tier_size intervals of a tier.
RECURSIVE parse_long_intervals(_, _, _)
parse_long_intervals(ls, n, intervals) ==
    IF n = 0
    THEN PList(intervals, ls)
    ELSE LET lo == parse_value(Skip(ls, 1), "xmin = ")
             hi == parse_value(Skip(ls, 2), "xmax = ")
             text == extract_quoted_value(Skip(ls, 3), "text = ")
             bad == FirstFailure(<<lo, hi, text>>, POk(0))
         IN  IF bad.res # "ok"
             THEN bad
             ELSE parse_long_intervals(Skip(ls, 4), n - 1,
                      Append(intervals, Interval(lo.val, hi.val, text.val)))

\* parse_long_format: the loop over the tier_size points of a tier.
RECURSIVE parse_long_points(_, _, _)
parse_long_points(ls, n, points) ==
    IF n = 0
    THEN PList(points, ls)
    ELSE LET time == parse_value(Skip(ls, 1), "time = ")
             mark == extract_quoted_value(Skip(ls, 2), "mark = ")
             bad == FirstFailure(<<time, mark>>, POk(0))
         IN  IF bad.res # "ok"
             THEN bad
             ELSE parse_long_points(Skip(ls, 3), n - 1,
                      Append(points, Point(time.val, mark.val)))

\* parse_long_format: the size line of a tier.  The line is tried with the
\* prefix "intervals: size = "; if that fails the line after it is tried
\* with "points: size = " and the result unwrapped.
parse_tier_size(ls) ==
    LET first == parse_value(ls, "intervals: size = ")
        second == parse_value(Rest(ls), "points: size = ")
    IN  IF first.res = "ok"
        THEN PList(as_usize(first.val), Rest(ls))
        ELSE IF second.res = "ok"
        THEN PList(as_usize(second.val), Skip(ls, 2))
        ELSE PPanic

\* The tier type a class line names, "" if none.
class_type(class_line) ==
    IF contains(class_line, "IntervalTier") THEN "IntervalTier"
    ELSE IF contains(class_line, "TextTier") THEN "PointTier"
    ELSE ""

\* parse_long_format: the loop over the size tiers.
RECURSIVE parse_long_tiers(_, _, _)
parse_long_tiers(ls, n, ts) ==
    IF n = 0
    THEN PList(ts, ls)
    ELSE LET from_class == Skip(ls, 1)
             tier_type == class_type(Head(from_class))
             name == extract_quoted_value(Skip(from_class, 1), "name = ")
             tier_xmin == parse_value(Skip(from_class, 2), "xmin = ")
             tier_xmax == parse_value(Skip(from_class, 3), "xmax = ")
             tier_size == parse_tier_size(Skip(from_class, 4))
             bad == FirstFailure(<<name, tier_xmin, tier_xmax, tier_size>>, POk(0))
             items == IF tier_type = "IntervalTier"
                      THEN parse_long_intervals(tier_size.rest, tier_size.val, <<>>)
                      ELSE parse_long_points(tier_size.rest, tier_size.val, <<>>)
         IN  IF from_class = <<>> THEN PErr("Missing class")
             ELSE IF tier_type = "" THEN PErr("Unknown tier type")
             ELSE IF bad.res # "ok" THEN bad
             ELSE IF items.res # "ok" THEN items
             ELSE parse_long_tiers(items.rest, n - 1,
                      Append(ts, Tier(name.val, tier_type, tier_xmin.val, tier_xmax.val,
                                      IF tier_type = "IntervalTier" THEN items.val ELSE <<>>,
                                      IF tier_type = "IntervalTier" THEN <<>> ELSE items.val)))

\* TextGrid::new(xmin, xmax)?.with_tiers(tiers)
new_with_tiers(lo, hi, ts) ==
    IF lo >= hi
    THEN PErr("xmin must be less than xmax")
    ELSE POk(TextGrid(lo, hi, ts, <<>>, <<>>))

\* parse_long_format: ls are the lines after the two header lines.
parse_long_format(ls) ==
    LET lo == parse_value(ls, "xmin = ")
        hi == parse_value(Skip(ls, 1), "xmax = ")
        flag == IF Skip(ls, 2) = <<>> THEN PErr("Missing tiers flag")
                ELSE IF ~contains(Head(Skip(ls, 2)), "tiers? <exists>")
                THEN PErr("Invalid tiers declaration")
                ELSE POk(0)
        size == parse_value(Skip(ls, 3), "size = ")
        bad == FirstFailure(<<lo, hi, flag, size>>, POk(0))
        with_tiers(ts) ==
            IF ts.res # "ok" THEN ts ELSE new_with_tiers(lo.val, hi.val, ts.val)
    IN  IF bad.res # "ok" THEN bad
        ELSE with_tiers(parse_long_tiers(Skip(ls, 5), as_usize(size.val), <<>>))

\* parse_short_format: the loop over the tier_size intervals of a tier.
RECURSIVE parse_short_intervals(_, _, _)
parse_short_intervals(ls, n, intervals) ==
    IF n = 0
    THEN PList(intervals, ls)
    ELSE LET lo == parse_bare_value(ls)
             hi == parse_bare_value(Skip(ls, 1))
             text == extract_quoted_value_short(Skip(ls, 2))
             bad == FirstFailure(<<lo, hi, text>>, POk(0))
         IN  IF bad.res # "ok"
             THEN bad
             ELSE parse_short_intervals(Skip(ls, 3), n - 1,
                      Append(intervals, Interval(lo.val, hi.val, text.val)))

\* parse_short_format: the loop over the tier_size points of a tier.
RECURSIVE parse_short_points(_, _, _)
parse_short_points(ls, n, points) ==
    IF n = 0
    THEN PList(points, ls)
    ELSE LET time == parse_bare_value(ls)
             mark == extract_quoted_value_short(Skip(ls, 1))
             bad == FirstFailure(<<time, mark>>, POk(0))
         IN  IF bad.res # "ok"
             THEN bad
             ELSE parse_short_points(Skip(ls, 2), n - 1,
                      Append(points, Point(time.val, mark.val)))

\* parse_short_format: the loop over the size tiers.
RECURSIVE parse_short_tiers(_, _, _)
parse_short_tiers(ls, n, ts) ==
    IF n = 0
    THEN PList(ts, ls)
    ELSE LET tier_type == class_type(Head(ls))
             name == extract_quoted_value_short(Skip(ls, 1))
             tier_xmin == parse_bare_value(Skip(ls, 2))
             tier_xmax == parse_bare_value(Skip(ls, 3))
             tier_size == parse_bare_value(Skip(ls, 4))
             bad == FirstFailure(<<name, tier_xmin, tier_xmax, tier_size>>, POk(0))
             items == IF tier_type = "IntervalTier"
                      THEN parse_short_intervals(Skip(ls, 5), as_usize(tier_size.val), <<>>)
                      ELSE parse_short_points(Skip(ls, 5), as_usize(tier_size.val), <<>>)
         IN  IF ls = <<>> THEN PErr("Missing tier type")
             ELSE IF tier_type = "" THEN PErr("Unknown tier type")
             ELSE IF bad.res # "ok" THEN bad
             ELSE IF items.res # "ok" THEN items
             ELSE parse_short_tiers(items.rest, n - 1,
                      Append(ts, Tier(name.val, tier_type, tier_xmin.val, tier_xmax.val,
                                      IF tier_type = "IntervalTier" THEN items.val ELSE <<>>,
                                      IF tier_type = "IntervalTier" THEN <<>> ELSE items.val)))

\* parse_short_format: ls are the lines after the two header lines.
parse_short_format(ls) ==
    LET lo == parse_bare_value(ls)
        hi == parse_bare_value(Skip(ls, 1))
        size == parse_bare_value(Skip(ls, 2))
        bad == FirstFailure(<<lo, hi, size>>, POk(0))
        with_tiers(ts) ==
            IF ts.res # "ok" THEN ts ELSE new_with_tiers(lo.val, hi.val, ts.val)
    IN  IF bad.res # "ok" THEN bad
        ELSE with_tiers(parse_short_tiers(Skip(ls, 3), as_usize(size.val), <<>>))

\* parse_textgrid: the short parser is taken when there is a third line
\* and it does not contain "xmin = ".
is_short_format(ls) == ls # <<>> /\ ~contains(Head(ls), "xmin = ")

\* parse_textgrid, on the content of the file.
parse_textgrid(data) ==
    LET ls == lines(data)
    IN  IF ls = <<>> THEN PErr("Empty file")
        ELSE IF ls[1] # "File type = \"ooTextFile\"" THEN PErr("Invalid file type")
        ELSE IF Len(ls) < 2 THEN PErr("Missing object class")
        ELSE IF ls[2] # "Object class = \"TextGrid\"" THEN PErr("Invalid object class")
        ELSE IF is_short_format(Skip(ls, 2))
        THEN parse_short_format(Skip(ls, 2))
        ELSE parse_long_format(Skip(ls, 2))

\* --------------------------------------------------------- binary codec
\* A buffer is a list of bytes, each in 0..255.

\* The printable ASCII characters but the backquote: the i-th of AsciiLow
\* has code 31 + i, the i-th of AsciiHigh code 96 + i.
AsciiLow == " !\"#$%&'()*+,-./0123456789:;<=>?@ABCDEFGHIJKLMNOPQRSTUVWXYZ[\\]^_"

AsciiHigh == "abcdefghijklmnopqrstuvwxyz{|}~"

\* The UTF-8 byte of a character: the strings of the scenario hold these
\* characters and "\n".
byte_table ==
    [c \in {SubSeq(AsciiLow, i, i) : i \in 1..Len(AsciiLow)}
           \cup {SubSeq(AsciiHigh, i, i) : i \in 1..Len(AsciiHigh)} \cup {"\n"} |->
        IF c = "\n" THEN 10
        ELSE IF \E i \in 1..Len(AsciiLow) : SubSeq(AsciiLow, i, i) = c
        THEN 31 + CHOOSE i \in 1..Len(AsciiLow) : SubSeq(AsciiLow, i, i) = c
        ELSE 96 + CHOOSE i \in 1..Len(AsciiHigh) : SubSeq(AsciiHigh, i, i) = c]

\* str::as_bytes
as_bytes(s) == [i \in 1..Len(s) |-> byte_table[SubSeq(s, i, i)]]

\* The character of a byte below 128 (the buffers of the scenario hold no
\* control character but "\n", and no backquote).
char_of(b) ==
    IF b = 10 THEN "\n"
    ELSE IF b < 96 THEN SubSeq(AsciiLow, b - 31, b - 31)
    ELSE SubSeq(AsciiHigh, b - 96, b - 96)

\* String::from_utf8: a byte of 128 or more stands for an invalid sequence
\* (the buffers of the scenario hold no multi-byte character).
from_utf8(bytes) ==
    IF \E i \in 1..Len(bytes) : bytes[i] >= 128
    THEN PErr("Invalid UTF-8 sequence")
    ELSE POk(Concat([i \in 1..Len(bytes) |-> char_of(bytes[i])]))

\* A string or a count of more than 65535 wraps in `as u16`.
U16Span == 65536

\* (n as u16).to_le_bytes()
u16_le(n) == <<(n % U16Span) % 256, (n % U16Span) \div 256>>

\* u16::from_le_bytes
u16_from_le(b) == b[1] + 256 * b[2]

\* (n as u32).to_le_bytes(), for n below 2^31.
u32_le(n) ==
    <<n % 256, (n \div 256) % 256, (n \div 65536) % 256, (n \div 16777216) % 256>>

\* u32::from_le_bytes, for a value below 2^31.
u32_from_le(b) == b[1] + 256 * b[2] + 65536 * b[3] + 16777216 * b[4]

\* The times the binary codec of the model can encode, in half seconds.
F64Times == 0..31

\* f64::to_le_bytes for a time of t half seconds (IEEE 754 binary64): with
\* t = 2^k + r, the biased exponent is k - 1 + 1023 and the four top bits
\* of the mantissa are r * 2^(4 - k); the lower mantissa bits are zero.
f64_le(t) ==
    IF t = 0
    THEN <<0, 0, 0, 0, 0, 0, 0, 0>>
    ELSE LET k == CHOOSE j \in 0..4 : 2^j <= t /\ t < 2^(j + 1)
             e == k - 1 + 1023
         IN  <<0, 0, 0, 0, 0, 0, (e % 16) * 16 + (t - 2^k) * 2^(4 - k), e \div 16>>

\* f64::from_le_bytes, -1 for a value that is not one of F64Times.
f64_from_le(b) ==
    IF \E t \in F64Times : f64_le(t) = b
    THEN CHOOSE t \in F64Times : f64_le(t) = b
    ELSE -1

\* A length-prefixed string as write_binary writes it.
bin_string(s) == u16_le(Len(s)) \o as_bytes(s)

\* write_binary: the bytes of one tier.
bin_tier(tier) ==
    bin_string(class_name(tier.tier_type))
    \o bin_string(tier.name)
    \o f64_le(tier.xmin)
    \o f64_le(tier.xmax)
    \o (IF tier.tier_type = "IntervalTier"
        THEN u32_le(Len(tier.intervals))
             \o Flatten([j \in 1..Len(tier.intervals) |->
                            f64_le(tier.intervals[j].xmin)
                            \o f64_le(tier.intervals[j].xmax)
                            \o bin_string(tier.intervals[j].text)])
        ELSE u32_le(Len(tier.points))
             \o Flatten([j \in 1..Len(tier.points) |->
                            f64_le(tier.points[j].time)
                            \o bin_string(tier.points[j].mark)]))

\* write_binary: the bytes written to the file.
write_binary(g) ==
    as_bytes("ooBinaryFile")
    \o bin_string("TextGrid")
    \o f64_le(g.xmin)
    \o f64_le(g.xmax)
    \o u32_le(Len(g.tiers))
    \o Flatten([i \in 1..Len(g.tiers) |-> bin_tier(g.tiers[i])])

\* A value read from the buffer and the cursor after it, or the error or
\* panic that ends the read.
BOk(val, cursor) == [res |-> "ok", msg |-> "", val |-> val, cursor |-> cursor]

BErr(msg) == [res |-> "err", msg |-> msg, val |-> 0, cursor |-> 0]

BPanic == [res |-> "panic", msg |-> "", val |-> 0, cursor |-> 0]

\* buffer[cursor..cursor + n] is in range.
InBuffer(buffer, cursor, n) == cursor + n <= Len(buffer)

\* buffer[cursor..cursor + n]
Slice(buffer, cursor, n) == SubSeq(buffer, cursor + 1, cursor + n)

\* read_binary: a u16 at the cursor; the slice panics if out of range.
read_u16(buffer, cursor) ==
    IF InBuffer(buffer, cursor, 2)
    THEN BOk(u16_from_le(Slice(buffer, cursor, 2)), cursor + 2)
    ELSE BPanic

\* read_binary: a u32 at the cursor.
read_u32(buffer, cursor) ==
    IF InBuffer(buffer, cursor, 4)
    THEN BOk(u32_from_le(Slice(buffer, cursor, 4)), cursor + 4)
    ELSE BPanic

\* read_binary: an f64 at the cursor.
read_f64(buffer, cursor) ==
    IF InBuffer(buffer, cursor, 8)
    THEN BOk(f64_from_le(Slice(buffer, cursor, 8)), cursor + 8)
    ELSE BPanic

\* read_binary: a u16 length and that many bytes as a String.
read_string(buffer, cursor) ==
    LET len == read_u16(buffer, cursor)
        text == from_utf8(Slice(buffer, len.cursor, len.val))
    IN  IF len.res # "ok" THEN len
        ELSE IF ~InBuffer(buffer, len.cursor, len.val) THEN BPanic
        ELSE IF text.res # "ok" THEN BErr(text.msg)
        ELSE BOk(text.val, len.cursor + len.val)

\* read_binary: the loop over the count intervals of a tier.
RECURSIVE read_intervals(_, _, _, _)
read_intervals(buffer, cursor, n, intervals) ==
    IF n = 0
    THEN BOk(intervals, cursor)
    ELSE LET lo == read_f64(buffer, cursor)
             hi == read_f64(buffer, lo.cursor)
             text == read_string(buffer, hi.cursor)
             bad == FirstFailure(<<lo, hi, text>>, BOk(0, 0))
         IN  IF bad.res # "ok"
             THEN bad
             ELSE read_intervals(buffer, text.cursor, n - 1,
                      Append(intervals, Interval(lo.val, hi.val, text.val)))

\* read_binary: the loop over the count points of a tier.
RECURSIVE read_points(_, _, _, _)
read_points(buffer, cursor, n, points) ==
    IF n = 0
    THEN BOk(points, cursor)
    ELSE LET time == read_f64(buffer, cursor)
             mark == read_string(buffer, time.cursor)
             bad == FirstFailure(<<time, mark>>, BOk(0, 0))
         IN  IF bad.res # "ok"
             THEN bad
             ELSE read_points(buffer, mark.cursor, n - 1,
                      Append(points, Point(time.val, mark.val)))

\* read_binary: the loop over the size tiers.
RECURSIVE read_tiers(_, _, _, _)
read_tiers(buffer, cursor, n, ts) ==
    IF n = 0
    THEN BOk(ts, cursor)
    ELSE LET class == read_string(buffer, cursor)
             tier_type == IF class.val = "IntervalTier" THEN "IntervalTier"
                          ELSE IF class.val = "TextTier" THEN "PointTier"
                          ELSE ""
             name == read_string(buffer, class.cursor)
             tier_xmin == read_f64(buffer, name.cursor)
             tier_xmax == read_f64(buffer, tier_xmin.cursor)
             count == read_u32(buffer, tier_xmax.cursor)
             bad == FirstFailure(<<name, tier_xmin, tier_xmax, count>>, BOk(0, 0))
             items == IF tier_type = "IntervalTier"
                      THEN read_intervals(buffer, count.cursor, count.val, <<>>)
                      ELSE read_points(buffer, count.cursor, count.val, <<>>)
         IN  IF class.res # "ok" THEN class
             ELSE IF tier_type = "" THEN BErr("Unknown tier type")
             ELSE IF bad.res # "ok" THEN bad
             ELSE IF items.res # "ok" THEN items
             ELSE read_tiers(buffer, items.cursor, n - 1,
                      Append(ts, Tier(name.val, tier_type, tier_xmin.val, tier_xmax.val,
                                      IF tier_type = "IntervalTier" THEN items.val ELSE <<>>,
                                      IF tier_type = "IntervalTier" THEN <<>> ELSE items.val)))

\* read_binary, on the content of the file.
read_binary(buffer) ==
    LET obj_len == read_u16(buffer, 12)
        after_class == obj_len.cursor + obj_len.val
        lo == read_f64(buffer, after_class)
        hi == read_f64(buffer, lo.cursor)
        size == read_u32(buffer, hi.cursor)
        bad == FirstFailure(<<lo, hi, size>>, BOk(0, 0))
        with_tiers(ts) ==
            IF ts.res # "ok" THEN ts ELSE new_with_tiers(lo.val, hi.val, ts.val)
    IN  IF ~InBuffer(buffer, 0, 12) THEN BPanic
        ELSE IF Slice(buffer, 0, 12) # as_bytes("ooBinaryFile")
        THEN BErr("Not a Praat binary TextGrid")
        ELSE IF obj_len.res # "ok" THEN obj_len
        ELSE IF ~InBuffer(buffer, obj_len.cursor, obj_len.val) THEN BPanic
        ELSE IF Slice(buffer, obj_len.cursor, obj_len.val) # as_bytes("TextGrid")
        THEN BErr("Invalid object class")
        ELSE IF bad.res # "ok" THEN bad
        ELSE with_tiers(read_tiers(buffer, size.cursor, size.val, <<>>))

\* ------------------------------------------------------------- lib.rs
\* A file is its extension, its content, and, for the claims, the format
\* flag and the Document it was written from.

\* The outcome of a call that leaves the TextGrid as g and the file as f.
FileOk(g, f) == [res |-> "ok", msg |-> "", tg |-> g, file |-> f]

FileErr(g, f, msg) == [res |-> "err", msg |-> msg, tg |-> g, file |-> f]

FilePanic(g, f) == [res |-> "panic", msg |-> "", tg |-> g, file |-> f]

\* TextGrid::to_file without the call of validate_textgrid.
to_file_unchecked(g, f, short_format) ==
    FileOk(g, [ext |-> "textgrid", data |-> write_textgrid(g, short_format),
               short_format |-> short_format, doc |-> Doc(g)])

\* TextGrid::to_file(path, short_format), the path ending in ".TextGrid";
\* f is the file before the call.
to_file(g, f, short_format) ==
    LET v == validate_result(g)
    IN  IF v.res # "ok"
        THEN FileErr(g, f, v.msg)
        ELSE FileOk(g, [ext |-> "textgrid", data |-> write_textgrid(g, short_format),
                        short_format |-> short_format, doc |-> Doc(g)])

\* TextGrid::to_binary_file(path), the path ending in ".textgridbin".
to_binary_file(g, f) ==
    LET v == validate_result(g)
    IN  IF v.res # "ok"
        THEN FileErr(g, f, v.msg)
        ELSE FileOk(g, [ext |-> "textgridbin", data |-> write_binary(g),
                        short_format |-> FALSE, doc |-> Doc(g)])

\* TextGrid::from_file(path): the reader is chosen by the extension, and
\* what it returns is validated.  g is the TextGrid of the caller, kept
\* when the call fails.
from_file(g, f) ==
    LET validated(textgrid, v) ==
            IF v.res # "ok" THEN FileErr(g, f, v.msg) ELSE FileOk(textgrid, f)
        checked(read) ==
            IF read.res = "panic" THEN FilePanic(g, f)
            ELSE IF read.res # "ok" THEN FileErr(g, f, read.msg)
            ELSE validated(read.val, validate_result(read.val))
    IN  IF f.ext \notin {"textgrid", "textgridbin"}
        THEN FileErr(g, f, "Unsupported file extension")
        ELSE checked(IF f.ext = "textgrid" THEN parse_textgrid(f.data)
                     ELSE read_binary(f.data))

\* The Documents of the scenario span [0, DocMax].
DocMax == 4

DocTimes == 0..DocMax

\* Interval lists of at most two intervals, well formed or not.
DocIntervals == {Interval(lo, hi, "x") : lo \in DocTimes, hi \in DocTimes}

DocIntervalLists ==
    {<<>>} \cup {<<i>> : i \in DocIntervals}
           \cup {<<i, j>> : i \in DocIntervals, j \in DocIntervals}

\* Point lists of at most one point, in the tier's span or just outside it.
DocPointLists == {<<>>} \cup {<<Point(t, "m")>> : t \in 0..(DocMax + 1)}

\* One IntervalTier "a" or one PointTier "b", spanning the Document.
DocTiers ==
    {Tier("a", "IntervalTier", 0, DocMax, ivs, <<>>) : ivs \in DocIntervalLists}
    \cup {Tier("b", "PointTier", 0, DocMax, <<>>, ps) : ps \in DocPointLists}

\* The Document of validator.rs's module example: bounds [0,10] s, one
\* IntervalTier spanning them that holds the single interval [1,2] s.
DocExample ==
    [xmin |-> 0, xmax |-> 20,
     tiers |-> <<Tier("words", "IntervalTier", 0, 20,
                      <<Interval(2, 4, "hello")>>, <<>>)>>]

\* The strings of the Documents that are written and read back.
DocTexts == {"", "x", "a\"b", "\"", "a\nb"}

\* A string of n characters "x".
RECURSIVE Repeat(_)
Repeat(n) ==
    IF n = 0 THEN ""
    ELSE IF n % 2 = 0 THEN LET half == Repeat(n \div 2) IN half \o half
    ELSE "x" \o Repeat(n - 1)

\* A text of 65536 bytes.
LongText == Repeat(U16Span)

\* IntervalTiers "a" that cover the span with one or two intervals, and
\* PointTiers "b" with up to two points.
CodecIntervalTiers ==
    {Tier("a", "IntervalTier", 0, DocMax, <<Interval(0, DocMax, t)>>, <<>>) :
        t \in DocTexts \cup {LongText}}
    \cup {Tier("a", "IntervalTier", 0, DocMax,
               <<Interval(0, 1, "x"), Interval(1, DocMax, t)>>, <<>>) : t \in DocTexts}

CodecPointTiers ==
    {Tier("b", "PointTier", 0, DocMax, <<>>, <<>>),
     Tier("b", "PointTier", 0, DocMax, <<>>, <<Point(1, "m"), Point(3, "")>>)}
    \cup {Tier("b", "PointTier", 0, DocMax, <<>>, <<Point(1, m)>>) : m \in DocTexts}

\* Documents of one or two such tiers.
CodecDocs ==
    {[xmin |-> 0, xmax |-> DocMax, tiers |-> <<t>>] : t \in CodecIntervalTiers}
    \cup {[xmin |-> 0, xmax |-> DocMax, tiers |-> <<t>>] : t \in CodecPointTiers}
    \cup {[xmin |-> 0, xmax |-> DocMax, tiers |-> <<t, u>>] :
             t \in CodecIntervalTiers \ {Tier("a", "IntervalTier", 0, DocMax,
                                              <<Interval(0, DocMax, LongText)>>, <<>>)},
             u \in CodecPointTiers}
    \cup {[xmin |-> 0, xmax |-> DocMax, tiers |-> <<u, t>>] :
             t \in {Tier("a", "IntervalTier", 0, DocMax, <<Interval(0, DocMax, "x")>>, <<>>)},
             u \in CodecPointTiers}

DocInputs ==
    {[xmin |-> 0, xmax |-> DocMax, tiers |-> <<>>]}
    \cup {[xmin |-> 0, xmax |-> DocMax, tiers |-> <<t>>] : t \in DocTiers}
    \cup {DocExample}
    \cup CodecDocs

\* A TextGrid holding one of the Documents, with no history and no file.
InitDoc ==
    /\ \E d \in DocInputs :
          /\ xmin = d.xmin
          /\ xmax = d.xmax
          /\ tiers = d.tiers
    /\ history = <<>>
    /\ redo_stack = <<>>
    /\ last = [op |-> "new", res |-> "ok", msg |-> "", call |-> [name |-> "new"],
               after_edit |-> FALSE, cleared |-> FALSE]
    /\ shadow = <<>>
    /\ pat = PatReset
    /\ file = NoFile

\* The variables after a call of the scenario with outcome r that leaves
\* the file as f.
DocStep(call, r, f) ==
    /\ xmin' = r.tg.xmin
    /\ xmax' = r.tg.xmax
    /\ tiers' = r.tg.tiers
    /\ history' = r.tg.history
    /\ redo_stack' = r.tg.redo_stack
    /\ last' = [op |-> call.name, res |-> r.res, msg |-> r.msg, call |-> call,
                after_edit |-> FALSE, cleared |-> FALSE]
    /\ file' = f
    /\ UNCHANGED <<shadow, pat>>

\* validate_textgrid(&textgrid)
Validate ==
    /\ Running
    /\ DocStep([name |-> "validate_textgrid"], validate_result(TG), file)

\* textgrid.to_file(path, short_format)
ToFile ==
    /\ Running
    /\ \E short_format \in BOOLEAN :
          LET r == to_file(TG, file, short_format)
          IN  DocStep([name |-> "to_file", short_format |-> short_format], r, r.file)

\* textgrid.to_binary_file(path)
ToBinaryFile ==
    /\ Running
    /\ LET r == to_binary_file(TG, file)
       IN  DocStep([name |-> "to_binary_file"], r, r.file)

\* textgrid = TextGrid::from_file(path)?, on a file written before.
FromFile ==
    /\ Running
    /\ file # NoFile
    /\ \E r \in {from_file(TG, file)} :
          DocStep([name |-> "from_file"], r, r.file)

NextDoc ==
    \/ Validate
    \/ ToFile
    \/ ToBinaryFile
    \/ FromFile

SpecDoc == InitDoc /\ [][NextDoc]_vars

\* ------------------------------------------------- reading damaged files
\* The readers applied to files that no writer produced: written files cut
\* short or with one line or byte changed.

\* The Documents whose written files are damaged.
ReadDocs ==
    {[xmin |-> 0, xmax |-> DocMax, tiers |-> <<>>],
     [xmin |-> 0, xmax |-> DocMax,
      tiers |-> <<Tier("a", "IntervalTier", 0, DocMax,
                       <<Interval(0, DocMax, "x")>>, <<>>)>>],
     [xmin |-> 0, xmax |-> DocMax,
      tiers |-> <<Tier("b", "PointTier", 0, DocMax, <<>>, <<Point(1, "m")>>)>>],
     [xmin |-> 0, xmax |-> DocMax,
      tiers |-> <<Tier("a", "IntervalTier", 0, DocMax,
                       <<Interval(0, 1, "x"), Interval(1, DocMax, "")>>, <<>>),
                  Tier("b", "PointTier", 0, DocMax, <<>>, <<>>)>>]}

\* The lists of lines of the text files written from ReadDocs.
WrittenLines == {lines(write_textgrid(d, sf)) : d \in ReadDocs, sf \in BOOLEAN}

\* The content of the file holding the lines ls.
Unlines(ls) == Concat([i \in 1..Len(ls) |-> writeln(ls[i])])

\* A marker line of the long format: "item []:", "item [n]:",
\* "intervals [n]:" or "points [n]:".
is_marker(line) ==
    \/ starts_with(trim(line), "item [")
    \/ starts_with(trim(line), "intervals [")
    \/ starts_with(trim(line), "points [")

\* A line that holds a string between quotes, the two header lines aside.
is_string_line(ls, k) == k > 2 /\ ends_with(ls[k], "\"")

\* The part of a line before its first quote.
Stem(line) ==
    SubSeq(line, 1, (CHOOSE i \in 1..Len(line) :
                        /\ SubSeq(line, i, i) = "\""
                        /\ \A j \in 1..(i - 1) : SubSeq(line, j, j) # "\"") - 1)

\* Written files that end early: a line the reader expects is missing.
TruncatedText ==
    {Unlines(SubSeq(ls, 1, k)) : <<ls, k>> \in
        UNION {{<<l, j>> : j \in 0..(Len(l) - 1)} : l \in WrittenLines}}

\* Written files in which one line that is not a marker line is replaced by
\* the line "junk": the line lacks its prefix, its number or its quotes.
FieldDamagedText ==
    {Unlines([ls EXCEPT ![k] = "junk"]) : <<ls, k>> \in
        UNION {{<<l, j>> : j \in {i \in 1..Len(l) : ~is_marker(l[i])}} :
                  l \in WrittenLines}}

\* Written files in which the value of one string field is replaced by an
\* unquoted x or by a single quote.
UnquotedText ==
    {Unlines([ls EXCEPT ![k] = Stem(ls[k]) \o v]) : <<ls, k, v>> \in
        UNION {{<<l, j, w>> : j \in {i \in 1..Len(l) : is_string_line(l, i)},
                              w \in {"x", "\""}} :
                  l \in WrittenLines}}

\* Written long files in which one marker line is replaced by "junk".
MarkerDamagedText ==
    {Unlines([ls EXCEPT ![k] = "junk"]) : <<ls, k>> \in
        UNION {{<<l, j>> : j \in {i \in 1..Len(l) : is_marker(l[i])}} :
                  l \in WrittenLines}}

\* The buffers of the binary files written from ReadDocs.
WrittenBuffers == {write_binary(d) : d \in ReadDocs}

\* The offset of the first tier: the length of a file with no tier.
TiersOffset == Len(write_binary([xmin |-> 0, xmax |-> DocMax, tiers |-> <<>>]))

\* Written buffers that end early, the empty buffer included.
TruncatedBuffers ==
    UNION {{SubSeq(b, 1, k) : k \in 0..(Len(b) - 1)} : b \in WrittenBuffers}

\* Written buffers with the first byte of the magic string changed.
WrongMagicBuffers == {[b EXCEPT ![1] = 120] : b \in WrittenBuffers}

\* Written buffers with the first byte of the class name "TextGrid" changed.
WrongClassBuffers ==
    {[b EXCEPT ![Len(as_bytes("ooBinaryFile")) + 3] = 120] : b \in WrittenBuffers}

\* Written buffers with the first byte of the first tier's class changed to
\* another letter, or to a byte that is not UTF-8.
WrongTierClassBuffers ==
    {[b EXCEPT ![TiersOffset + 3] = c] :
        b \in {w \in WrittenBuffers : Len(w) > TiersOffset}, c \in {120, 200}}

\* The files the readers are given.
ReadInputs ==
    {[ext |-> "textgrid", data |-> data, short_format |-> FALSE, doc |-> NoDoc] :
        data \in {Unlines(ls) : ls \in WrittenLines}
                \cup TruncatedText \cup FieldDamagedText
                \cup UnquotedText \cup MarkerDamagedText}
    \cup {[ext |-> "textgridbin", data |-> b, short_format |-> FALSE, doc |-> NoDoc] :
              b \in WrittenBuffers \cup TruncatedBuffers \cup WrongMagicBuffers
                    \cup WrongClassBuffers \cup WrongTierClassBuffers}

\* One of the files is on disk; the caller holds an empty TextGrid.
InitRead ==
    /\ xmin = 0
    /\ xmax = DocMax
    /\ tiers = <<>>
    /\ history = <<>>
    /\ redo_stack = <<>>
    /\ last = [op |-> "new", res |-> "ok", msg |-> "", call |-> [name |-> "new"],
               after_edit |-> FALSE, cleared |-> FALSE]
    /\ shadow = <<>>
    /\ pat = PatReset
    /\ file \in ReadInputs

\* The outcome of a reader that returned read: the TextGrid read, or the
\* caller's own when the reader failed.
ReadOutcome(read) ==
    [res |-> read.res, msg |-> read.msg,
     tg |-> IF read.res = "ok" THEN read.val ELSE TG]

\* textgrid = parse_textgrid(path)?
ParseTextgrid ==
    /\ Running
    /\ file.ext = "textgrid"
    /\ \E read \in {parse_textgrid(file.data)} :
          DocStep([name |-> "parse_textgrid"], ReadOutcome(read), file)

\* textgrid = read_binary(path)?
ReadBinary ==
    /\ Running
    /\ file.ext = "textgridbin"
    /\ \E read \in {read_binary(file.data)} :
          DocStep([name |-> "read_binary"], ReadOutcome(read), file)

NextRead ==
    \/ ParseTextgrid
    \/ ReadBinary

SpecRead == InitRead /\ [][NextRead]_vars

\* ------------------------------------------------------ silence scenario
\* insert_silence on tiers whose span is wide enough for a silence to fall
\* strictly inside an interval.

\* The tiers of the scenario span [0, SilenceMax].
SilenceMax == 4

SilenceTimes == 0..SilenceMax

SilenceNames == {"a", "b", "c", "d"}

\* Lists of at most two well-formed intervals, in any order, overlapping or
\* not; the first has the text "x", the second "y".
SilenceIntervalLists ==
    {<<>>}
    \cup {<<Interval(lo, hi, "x")>> :
              <<lo, hi>> \in {t \in SilenceTimes \X SilenceTimes : t[1] < t[2]}}
    \cup {<<Interval(t[1], t[2], "x"), Interval(u[1], u[2], "y")>> :
              t \in {v \in SilenceTimes \X SilenceTimes : v[1] < v[2]},
              u \in {v \in SilenceTimes \X SilenceTimes : v[1] < v[2]}}

\* An IntervalTier "a" holding one of the lists, a second IntervalTier of
\* the same name, a PointTier "b", and an IntervalTier "c" whose bounds lie
\* strictly inside the TextGrid's; no tier is named "d".
InitSilence ==
    /\ xmin = 0
    /\ xmax = SilenceMax
    /\ \E ivs \in SilenceIntervalLists :
          tiers = <<Tier("a", "IntervalTier", 0, SilenceMax, ivs, <<>>),
                    Tier("a", "IntervalTier", 0, SilenceMax,
                         <<Interval(0, SilenceMax, "z")>>, <<>>),
                    Tier("b", "PointTier", 0, SilenceMax, <<>>, <<Point(1, "m")>>),
                    Tier("c", "IntervalTier", 1, SilenceMax - 1, <<>>, <<>>)>>
    /\ history = <<>>
    /\ redo_stack = <<>>
    /\ last = [op |-> "new", res |-> "ok", msg |-> "", call |-> [name |-> "new"],
               after_edit |-> FALSE, cleared |-> FALSE]
    /\ shadow = <<>>
    /\ pat = PatReset
    /\ file = NoFile

\* textgrid.insert_silence(tier_name, start, end)
SilenceInsert ==
    /\ CanEdit
    /\ \E tier_name \in SilenceNames, start \in SilenceTimes, end \in SilenceTimes :
          Step("edit", [name |-> "insert_silence", tier_name |-> tier_name,
                        start |-> start, end |-> end],
               insert_silence(TG, tier_name, start, end))

NextSilence == SilenceInsert

SpecSilence == InitSilence /\ [][NextSilence]_vars

\* ------------------------------------------------------- bounds scenario
\* adjust_bounds, tier_add_interval, undo and redo on a TextGrid that holds
\* an IntervalTier and a PointTier with data, the IntervalTier's bounds equal
\* to the TextGrid's or strictly inside them.

\* The TextGrid of the scenario spans [0, BoundsMax].
BoundsMax == 4

BoundsTimes == 0..BoundsMax

\* The interval lists of tier "a": empty, sorted, not sorted, or one long
\* interval.
BoundsIntervalLists ==
    {<<>>,
     <<Interval(1, 2, "x")>>,
     <<Interval(1, 2, "x"), Interval(2, 3, "y")>>,
     <<Interval(2, 3, "y"), Interval(1, 2, "x")>>,
     <<Interval(0, 3, "x")>>}

\* The point lists of tier "b".
BoundsPointLists ==
    {<<>>, <<Point(2, "m")>>, <<Point(1, "m"), Point(3, "m")>>}

InitBounds ==
    /\ xmin = 0
    /\ xmax = BoundsMax
    /\ \E inner \in BOOLEAN, ivs \in BoundsIntervalLists, ps \in BoundsPointLists :
          tiers = <<Tier("a", "IntervalTier",
                         IF inner THEN 1 ELSE 0,
                         IF inner THEN BoundsMax - 1 ELSE BoundsMax, ivs, <<>>),
                    Tier("b", "PointTier", 0, BoundsMax, <<>>, ps)>>
    /\ history = <<>>
    /\ redo_stack = <<>>
    /\ last = [op |-> "new", res |-> "ok", msg |-> "", call |-> [name |-> "new"],
               after_edit |-> FALSE, cleared |-> FALSE]
    /\ shadow = <<>>
    /\ pat = PatReset
    /\ file = NoFile

\* textgrid.adjust_bounds(new_xmin, new_xmax)
BoundsAdjust ==
    /\ CanEdit
    /\ \E new_xmin \in BoundsTimes, new_xmax \in BoundsTimes :
          Step("edit", [name |-> "adjust_bounds", new_xmin |-> new_xmin,
                        new_xmax |-> new_xmax],
               adjust_bounds(TG, new_xmin, new_xmax))

\* textgrid.tier_add_interval("a", [1,2] "y")
BoundsAddInterval ==
    /\ CanEdit
    /\ Step("edit", [name |-> "tier_add_interval", tier_name |-> "a",
                     interval |-> Interval(1, 2, "y")],
            tier_add_interval(TG, "a", Interval(1, 2, "y")))

NextBounds ==
    \/ BoundsAdjust
    \/ BoundsAddInterval
    \/ Undo
    \/ Redo

SpecBounds == InitBounds /\ [][NextBounds]_vars

\* --------------------------------------------------------- tier scenario
\* Splitting, merging and removing the intervals of one IntervalTier, with
\* undo and redo.  The TextGrid is new(0, TierMax) followed by add_tier of
\* an IntervalTier "a" that holds up to two intervals, in order or not,
\* overlapping or not.

TierMax == 3

\* The scenario makes an edit call only while the undo stack is short of
\* TierEdits Changes.
TierEdits == 3

TierTimes == 0..TierMax

TierIntervals ==
    {Interval(lo, hi, text) : lo \in 0..(TierMax - 1), hi \in 1..TierMax,
                              text \in {"x", "y"}}

\* The interval lists of the tier handed to add_tier.
TierIntervalLists ==
    {<<>>}
    \cup {<<v>> : v \in {w \in TierIntervals : w.xmin < w.xmax}}
    \cup {<<v, w>> : v \in {u \in TierIntervals : u.xmin < u.xmax /\ u.text = "x"},
                     w \in {u \in TierIntervals : u.xmin < u.xmax}}

InitTier ==
    \E ivs \in TierIntervalLists :
       \E t \in {Tier("a", "IntervalTier", 0, TierMax, ivs, <<>>)} :
          \E r \in {add_tier(TextGrid(0, TierMax, <<>>, <<>>, <<>>), t)} :
             /\ xmin = r.tg.xmin
             /\ xmax = r.tg.xmax
             /\ tiers = r.tg.tiers
             /\ history = r.tg.history
             /\ redo_stack = r.tg.redo_stack
             /\ last = [op |-> "add_tier", res |-> r.res, msg |-> r.msg,
                        call |-> [name |-> "add_tier", tier |-> t],
                        after_edit |-> FALSE, cleared |-> FALSE]
             /\ shadow = <<[xmin |-> 0, xmax |-> TierMax, tiers |-> <<>>]>>
             /\ pat = [n |-> 1, k |-> 0, r |-> 0, post |-> NoDoc]
             /\ file = NoFile

TierCanEdit == Running /\ Len(history) < TierEdits

\* textgrid.tier_split_interval("a", index, time)
TierSplit ==
    /\ TierCanEdit
    /\ \E index \in 0..MaxItems, time \in TierTimes :
          Step("edit", [name |-> "tier_split_interval", tier_name |-> "a",
                        index |-> index, time |-> time],
               tier_split_interval(TG, "a", index, time))

\* textgrid.tier_merge_intervals("a")
TierMerge ==
    /\ TierCanEdit
    /\ Step("edit", [name |-> "tier_merge_intervals", tier_name |-> "a"],
            tier_merge_intervals(TG, "a"))

\* textgrid.tier_remove_interval("a", index)
TierRemove ==
    /\ TierCanEdit
    /\ \E index \in 0..MaxItems :
          Step("edit", [name |-> "tier_remove_interval", tier_name |-> "a",
                        index |-> index],
               tier_remove_interval(TG, "a", index))

NextTier ==
    \/ TierSplit
    \/ TierMerge
    \/ TierRemove
    \/ Undo
    \/ Redo

SpecTier == InitTier /\ [][NextTier]_vars

\* -------------------------------------------------------- merge scenario
\* merge_tiers_with_strategy and merge_tiers on a TextGrid new(0, MergeMax)
\* to which add_tier has added the IntervalTiers "a" (up to two intervals)
\* and "b" (up to one), in any order and overlapping or not.  No tier is
\* named "c" before the merge.

MergeMax == 3

MergeNames == {"a", "b", "c"}

MergeIntervals(texts) ==
    {Interval(lo, hi, text) : lo \in 0..(MergeMax - 1), hi \in 1..MergeMax,
                              text \in texts}

MergeListsA ==
    LET ivs == {v \in MergeIntervals({"x", ""}) : v.xmin < v.xmax}
    IN  {<<>>} \cup {<<v>> : v \in ivs} \cup {<<v, w>> : v \in ivs, w \in ivs}

MergeListsB ==
    LET ivs == {v \in MergeIntervals({"x", "y", ""}) : v.xmin < v.xmax}
    IN  {<<>>} \cup {<<v>> : v \in ivs}

InitMerge ==
    \E la \in MergeListsA, lb \in MergeListsB :
       \E ta \in {Tier("a", "IntervalTier", 0, MergeMax, la, <<>>)},
          tb \in {Tier("b", "IntervalTier", 0, MergeMax, lb, <<>>)} :
          \E r \in {add_tier(add_tier(TextGrid(0, MergeMax, <<>>, <<>>, <<>>), ta).tg,
                              tb)} :
             /\ xmin = r.tg.xmin
             /\ xmax = r.tg.xmax
             /\ tiers = r.tg.tiers
             /\ history = r.tg.history
             /\ redo_stack = r.tg.redo_stack
             /\ last = [op |-> "add_tier", res |-> r.res, msg |-> r.msg,
                        call |-> [name |-> "add_tier", tier |-> tb],
                        after_edit |-> FALSE, cleared |-> FALSE]
             /\ shadow = <<[xmin |-> 0, xmax |-> MergeMax, tiers |-> <<>>],
                           [xmin |-> 0, xmax |-> MergeMax, tiers |-> <<ta>>]>>
             /\ pat = [n |-> 2, k |-> 0, r |-> 0, post |-> NoDoc]
             /\ file = NoFile

\* The scenario merges while the TextGrid holds the two tiers only.
CanMerge == Running /\ Len(tiers) = 2

\* textgrid.merge_tiers_with_strategy(name1, name2, "c", strategy)
MergeWithStrategy ==
    /\ CanMerge
    /\ \E name1 \in MergeNames, name2 \in MergeNames, strategy \in Strategies :
          Step("edit", [name |-> "merge_tiers_with_strategy", name1 |-> name1,
                        name2 |-> name2, new_name |-> "c", strategy |-> strategy],
               merge_tiers_with_strategy(TG, name1, name2, "c", strategy))

\* textgrid.merge_tiers(name1, name2, "c")
MergeDefault ==
    /\ CanMerge
    /\ \E name1 \in MergeNames, name2 \in MergeNames :
          Step("edit", [name |-> "merge_tiers", name1 |-> name1, name2 |-> name2,
                        new_name |-> "c"],
               merge_tiers(TG, name1, name2, "c"))

NextMerge ==
    \/ MergeWithStrategy
    \/ MergeDefault

SpecMerge == InitMerge /\ [][NextMerge]_vars

\* -------------------------------------------------------- names scenario
\* Up to NamesEdits add_tier calls on a new TextGrid, with tiers that may
\* share the name "a", and undo and redo.

NamesEdits == 3

\* The tiers handed to add_tier.
NamesTiers ==
    {Tier("a", "PointTier", 0, 1, <<>>, <<>>),
     Tier("a", "IntervalTier", 0, MaxTime, <<>>, <<>>),
     Tier("a", "IntervalTier", 0, MaxTime, <<Interval(0, 1, "x")>>, <<>>),
     Tier("b", "IntervalTier", 0, MaxTime, <<>>, <<>>)}

\* textgrid.add_tier(tier)
NamesAddTier ==
    /\ Running
    /\ Len(history) < NamesEdits
    /\ \E tier \in NamesTiers :
          Step("edit", [name |-> "add_tier", tier |-> tier], add_tier(TG, tier))

NextNames ==
    \/ NamesAddTier
    \/ Undo
    \/ Redo

SpecNames == Init /\ [][NextNames]_vars

\* ---------------------------------------------------------------- claims

DocNow == Doc(TG)

\* The step leaves the bounds, the tiers and both stacks as they were.
SameTextGrid == TG' = TG

\* The tier names of a Document are pairwise distinct.
UniqueNames(d) ==
    \A i \in 1..Len(d.tiers), j \in 1..Len(d.tiers) :
        i # j => d.tiers[i].name # d.tiers[j].name

\* Tier names were unique in every Document of the current run: before each
\* edit still on the undo stack, now, and right after the edits.
UniqueInRun ==
    /\ UniqueNames(DocNow)
    /\ UniqueNames(pat.post)
    /\ \A i \in 1..Len(shadow) : UniqueNames(shadow[i])

\* C1: n successful edits followed by n undo() calls, n at most the undo
\* capacity: every one of the undos succeeds and leaves the Document (bounds
\* and tiers) as it was before the edit it undoes.  Stated for Documents
\* whose tier names are unique.
C1_UndoRestores ==
    [][(last'.op = "undo" /\ InUndoRun /\ UniqueInRun)
          => (last'.res = "ok" /\ DocNow' = Last(shadow))]_vars

\* C2: after n successful edits and n successful undos, every one of the n
\* redo() calls succeeds, and the last of them leaves the Document as it was
\* right after the edits.  Stated for n >= 2 (n = 1 is C3) and for Documents
\* whose tier names are unique.
C2_RedoRestores ==
    [][(last'.op = "redo" /\ InRedoRun /\ pat.k >= 2 /\ UniqueInRun)
          => (last'.res = "ok" /\ (pat.r + 1 = pat.k => DocNow' = pat.post))]_vars

\* C3: redo() right after the undo() of an edit re-applies that edit: it
\* succeeds and the Document equals the Document right after the edit, for
\* every kind of edit, tier_add_point and tier_remove_point included.
\* Stated for Documents whose tier names are unique.
C3_RedoReappliesEdit ==
    [][(last'.op = "redo" /\ last.op = "undo" /\ pat.k = 1 /\ pat.r = 0
           /\ UniqueInRun)
          => (last'.res = "ok" /\ DocNow' = pat.post)]_vars

\* C4: after N > max_history successful edits with no undo in between,
\* each of the next max_history undo() calls succeeds, and the one after
\* them fails with the nothing-to-undo error and undoes nothing more.
C4_HistoryBound ==
    [][(last'.op = "undo" /\ pat.n > max_history /\ pat.r = 0)
          => IF pat.k < max_history
             THEN last'.res = "ok"
             ELSE /\ last'.res = "err"
                  /\ last'.msg = "No more actions to undo"
                  /\ DocNow' = DocNow]_vars

\* C5: a mutating operation that returns an error records no Change and
\* leaves the bounds, the tiers and both stacks exactly as before the call.
C5_ErrorChangesNothing ==
    [][(last'.res = "err" /\ last'.op \notin {"undo", "redo"}) => SameTextGrid]_vars

\* The Change c describes the successful call: its kind and its arguments,
\* and what of the Document before the call (tiers, xmin, xmax) it captures.
Describes(c, call) ==
    LET i == IF "tier_name" \in DOMAIN call THEN get_tier_mut(TG, call.tier_name) ELSE -1
    IN  CASE call.name = "add_tier" -> c.op = "AddTier" /\ c.tier = call.tier
          [] call.name = "remove_tier" ->
               c.op = "RemoveTier" /\ c.index = call.index
                  /\ c.tier = tiers[call.index + 1]
          [] call.name = "rename_tier" ->
               c.op = "RenameTier" /\ c.old_name = call.old_name
                  /\ c.new_name = call.new_name
          [] call.name = "merge_tiers_with_strategy" ->
               c.op = "MergeTiers" /\ c.t1 = call.name1 /\ c.t2 = call.name2
                  /\ c.new_name = call.new_name
          [] call.name = "adjust_bounds" ->
               c.op = "AdjustBounds" /\ c.xmin = xmin /\ c.xmax = xmax
          [] call.name = "insert_silence" ->
               c.op = "InsertSilence" /\ c.tier_name = call.tier_name
                  /\ c.before = tiers[i + 1].intervals
          [] call.name = "tier_add_interval" ->
               c.op = "AddInterval" /\ c.tier_name = call.tier_name
                  /\ c.interval = call.interval
          [] call.name = "tier_remove_interval" ->
               c.op = "RemoveInterval" /\ c.tier_name = call.tier_name
                  /\ c.index = call.index
                  /\ c.interval = tiers[i + 1].intervals[call.index + 1]
          [] call.name = "tier_add_point" ->
               c.op = "AddPoint" /\ c.tier_name = call.tier_name
                  /\ c.point = call.point
          [] call.name = "tier_remove_point" ->
               c.op = "RemovePoint" /\ c.tier_name = call.tier_name
                  /\ c.index = call.index
                  /\ c.point = tiers[i + 1].points[call.index + 1]
          [] call.name = "tier_split_interval" ->
               c.op = "SplitInterval" /\ c.tier_name = call.tier_name
                  /\ c.index = call.index
                  /\ c.orig = tiers[i + 1].intervals[call.index + 1]
          [] call.name = "tier_merge_intervals" ->
               c.op = "MergeIntervals" /\ c.tier_name = call.tier_name

C7_EditClearsRedo ==
    [][/\ IsEdit(last') => redo_stack' = <<>>
       /\ (IsEdit(last) /\ last'.op = "redo")
             => /\ last'.res = "err"
                /\ last'.msg = "No more actions to redo"
                /\ SameTextGrid]_vars

\* redo() has failed right after an edit that was made with undone Changes
\* on the redo stack.
C7_Witness ==
    /\ last.op = "redo"
    /\ last.res = "err"
    /\ last.after_edit
    /\ last.cleared

\* C8: undo() on an empty undo stack and redo() on an empty redo stack each
\* return an error and leave the bounds, the tiers and both stacks unchanged.
C8_EmptyStackFails ==
    [][(\/ last'.op = "undo" /\ history = <<>>
        \/ last'.op = "redo" /\ redo_stack = <<>>)
          => (last'.res = "err" /\ SameTextGrid)]_vars

\* undo() has failed on the undo stack that earlier undos had emptied.
C8_Witness ==
    /\ last.op = "undo"
    /\ last.res = "err"
    /\ last.msg = "No more actions to undo"
    /\ history = <<>>
    /\ redo_stack # <<>>

\* C9: every successful call (edit, undo or redo) made on a Document that
\* passes validate_textgrid leaves a Document that passes it.
C9_ValidityPreserved ==
    [][(validate_textgrid(TG) /\ last'.res = "ok") => validate_textgrid(TG)']_vars

\* C10: no two tiers of the Document have the same name.
C10_UniqueTierNames ==
    \A i \in 1..Len(tiers), j \in 1..Len(tiers) :
        i # j => tiers[i].name # tiers[j].name

\* The intervals of a non-empty IntervalTier do not cover its span exactly.
NotCovering(tier) ==
    /\ tier.tier_type = "IntervalTier"
    /\ tier.intervals # <<>>
    /\ \/ tier.intervals[1].xmin # tier.xmin
       \/ Last(tier.intervals).xmax # tier.xmax
       \/ \E k \in 1..(Len(tier.intervals) - 1) :
              tier.intervals[k].xmax < tier.intervals[k + 1].xmin

\* The intervals of an IntervalTier are well formed, lie in the tier's span
\* and none starts before the one before it ends.
Ordered(tier) ==
    /\ tier.tier_type = "IntervalTier"
    /\ \A k \in 1..Len(tier.intervals) :
          /\ tier.intervals[k].xmin < tier.intervals[k].xmax
          /\ tier.xmin <= tier.intervals[k].xmin
          /\ tier.intervals[k].xmax <= tier.xmax
    /\ \A k \in 1..(Len(tier.intervals) - 1) :
          tier.intervals[k].xmax <= tier.intervals[k + 1].xmin

\* Bounds that pass the first checks of validate_textgrid.
BoundsOk(d) ==
    /\ d.xmin < d.xmax
    /\ \A k \in 1..Len(d.tiers) :
          /\ d.xmin <= d.tiers[k].xmin
          /\ d.tiers[k].xmin < d.tiers[k].xmax
          /\ d.tiers[k].xmax <= d.xmax

Validated == last.op = "validate_textgrid"

\* C11: validate rejects every Document with a non-empty IntervalTier whose
\* intervals do not cover the tier's span exactly (first xmin, last xmax, or
\* a gap between two intervals).
C11_ValidateRejectsUncovered ==
    (Validated /\ \E k \in 1..Len(tiers) : NotCovering(tiers[k]))
        => last.res = "err"

\* C12: the Document with bounds [0,10] s whose IntervalTier spans [0,10] s
\* and holds the single interval [1,2] s passes validate_textgrid; so does
\* every Document with sound bounds whose IntervalTiers hold well-formed,
\* ordered, non-overlapping intervals, parts of the span left uncovered or
\* not.
C12_ValidateAcceptsGaps ==
    (/\ Validated
     /\ \/ DocNow = DocExample
        \/ /\ BoundsOk(DocNow)
           /\ \A k \in 1..Len(tiers) : Ordered(tiers[k]))
        => last.res = "ok"

C12_Witness ==
    /\ Validated
    /\ DocNow = DocExample
    /\ NotCovering(tiers[1])
    /\ last.res = "ok"

\* The Document spanning [0,2] s with one IntervalTier spanning [0,2] s that
\* holds [0,1] s and then an interval from second_xmin to 2 s.
DocTwo(second_xmin) ==
    [xmin |-> 0, xmax |-> 4,
     tiers |-> <<Tier("a", "IntervalTier", 0, 4,
                      <<Interval(0, 2, "x"), Interval(second_xmin, 4, "x")>>,
                      <<>>)>>]

\* C13: for a Document and a single IntervalTier spanning [0,2] s, validate
\* fails for the intervals [0,1], [0.5,2] and succeeds for [0,1], [1,2]; in
\* general, with two well-formed intervals of which the first does not
\* start before the tier, validate succeeds exactly when the second does
\* not start before the first ends.
C13_OverlapRejectedTouchAccepted ==
    Validated =>
        /\ DocNow = DocTwo(1) => last.res = "err"
        /\ DocNow = DocTwo(2) => last.res = "ok"
        /\ \A k \in 1..Len(tiers) :
              (/\ BoundsOk(DocNow)
               /\ Len(tiers) = 1
               /\ tiers[k].tier_type = "IntervalTier"
               /\ Len(tiers[k].intervals) = 2
               /\ tiers[k].xmin <= tiers[k].intervals[1].xmin
               /\ tiers[k].intervals[1].xmin < tiers[k].intervals[1].xmax
               /\ tiers[k].intervals[2].xmin < tiers[k].intervals[2].xmax)
                  => (last.res = "ok" <=>
                        tiers[k].intervals[2].xmin >= tiers[k].intervals[1].xmax)

C13_Witness ==
    /\ Validated
    /\ DocNow = DocTwo(2)
    /\ last.res = "ok"

\* C14: to_file and to_binary_file validate the Document before they write.
\* On a Document validate_textgrid rejects, the call returns that validation
\* error and the file is left as it was (none is created); on a Document it
\* accepts, the call succeeds and the file holds that Document.
C14_WriteValidatesFirst ==
    [][last'.op \in {"to_file", "to_binary_file"} =>
          IF validate_result(TG).res = "ok"
          THEN /\ last'.res = "ok"
               /\ file'.doc = DocNow
               /\ file'.ext = (IF last'.op = "to_file" THEN "textgrid" ELSE "textgridbin")
          ELSE /\ last'.res = "err"
               /\ last'.msg = validate_result(TG).msg
               /\ file' = file]_vars

C14_Witness ==
    /\ last.op = "to_file"
    /\ last.res = "err"
    /\ last.msg = "Overlapping intervals detected"
    /\ file = NoFile

\* The step reads back, with from_file, a file of the given extension and
\* format flag that to_file or to_binary_file wrote.
ReadsBack(ext, short_format) ==
    /\ last'.op = "from_file"
    /\ file.ext = ext
    /\ file.short_format = short_format

\* The step's from_file succeeds and returns the Document the file was
\* written from: equal bounds, the same tiers in the same order with equal
\* kinds, names, bounds, intervals and points.
ReturnsWritten ==
    /\ last'.res = "ok"
    /\ DocNow' = file.doc

\* C15: every Document that passes validate, written in long text format and
\* read back, is returned equal, PointTiers included.
C15_LongRoundTrip ==
    [][ReadsBack("textgrid", FALSE) => ReturnsWritten]_vars

\* C16: every Document that passes validate, written in short text format
\* and read back, is parsed by the short parser and returned equal.
C16_ShortRoundTrip ==
    [][ReadsBack("textgrid", TRUE) =>
          /\ is_short_format(Skip(lines(file.data), 2))
          /\ ReturnsWritten]_vars

\* C17: every Document that passes validate, written by write_binary and
\* read back by read_binary, is returned equal.
C17_BinaryRoundTrip ==
    [][ReadsBack("textgridbin", FALSE) => ReturnsWritten]_vars

\* C18: on every sequence of lines parse_textgrid returns a Document or a
\* format error and never panics; a file that ends before a line the reader
\* expects, a file with a field line replaced by a line without its prefix,
\* a file with an unquoted string field, and a long file with a marker line
\* ("item [n]:", "intervals [n]:") replaced, each give the error.
C18_TextReaderRejects ==
    last.op = "parse_textgrid" =>
        /\ last.res \in {"ok", "err"}
        /\ file.data \in TruncatedText \cup FieldDamagedText
                          \cup UnquotedText \cup MarkerDamagedText
              => last.res = "err"

\* C19: on every buffer read_binary returns a Document or a format error
\* and never panics, a buffer shorter than the magic string or ending before
\* a declared length, count or value included; a wrong magic, a wrong class
\* name and an unrecognized tier class each give the error.
C19_BinaryReaderRejects ==
    last.op = "read_binary" =>
        /\ last.res \in {"ok", "err"}
        /\ file.data \in WrongMagicBuffers \cup WrongClassBuffers
                          \cup WrongTierClassBuffers
              => last.res = "err"

\* The interval meets the span [start, end).
Overlaps(interval, start, end) == interval.xmin < end /\ start < interval.xmax

\* What is left of an interval once [start, end) is cut out: the interval
\* itself if it lies outside, else its part before start and its part after
\* end, with the text of the interval.
Pieces(interval, start, end) ==
    IF ~Overlaps(interval, start, end)
    THEN {interval}
    ELSE {Interval(interval.xmin, start, interval.text) :
             n \in IF interval.xmin < start THEN {1} ELSE {}}
         \cup {Interval(end, interval.xmax, interval.text) :
                   n \in IF end < interval.xmax THEN {1} ELSE {}}

\* How many times x occurs in the list.
Count(list, x) == Cardinality({k \in 1..Len(list) : list[k] = x})

\* The first tier of the name: the tier get_tier_mut finds.
Target(name) ==
    CHOOSE k \in 1..Len(tiers) :
        tiers[k].name = name /\ \A j \in 1..(k - 1) : tiers[j].name # name

\* C20: a successful insert_silence(tier, start, end) leaves in the target
\* tier exactly the prior intervals outside [start, end), the parts before
\* start and after end of the prior intervals that overlap it, each with its
\* text, and one new interval [start, end] with empty text, sorted by xmin;
\* the other tiers and the bounds stay as they were.
C20_InsertSilenceResult ==
    [][(last'.op = "insert_silence" /\ last'.res = "ok") =>
          LET start == last'.call.start
              end == last'.call.end
              i == Target(last'.call.tier_name)
              before == tiers[i].intervals
              after == tiers'[i].intervals
              silence == Interval(start, end, "")
          IN  /\ xmin' = xmin
              /\ xmax' = xmax
              /\ Len(tiers') = Len(tiers)
              /\ \A k \in 1..Len(tiers) : k # i => tiers'[k] = tiers[k]
              /\ tiers'[i] = [tiers[i] EXCEPT !.intervals = after]
              /\ \A k \in 1..(Len(after) - 1) : after[k].xmin <= after[k + 1].xmin
              /\ Count(after, silence) = 1
              /\ \A x \in {after[k] : k \in 1..Len(after)}
                           \cup UNION {Pieces(before[k], start, end) : k \in 1..Len(before)} :
                    Count(after, x) =
                        Cardinality({k \in 1..Len(before) : x \in Pieces(before[k], start, end)})
                        + (IF x = silence THEN 1 ELSE 0)]_vars

\* A silence [1,3] was cut out of the single interval [0,4] "x", which left
\* its part before 1 and its part after 3.
C20_Witness ==
    /\ last.op = "insert_silence"
    /\ last.res = "ok"
    /\ last.call.start = 1
    /\ last.call.end = 3
    /\ shadow # <<>>
    /\ Last(shadow).tiers[1].intervals = <<Interval(0, SilenceMax, "x")>>
    /\ tiers[1].intervals =
          <<Interval(0, 1, "x"), Interval(1, 3, ""), Interval(3, SilenceMax, "x")>>

\* insert_silence(tier_name, start, end) is a call the claim says fails: no
\* tier has the name, the first tier of the name is a PointTier, start is
\* not below end, or the silence reaches outside that tier's bounds.
SilenceRejected(tier_name, start, end) ==
    \/ \A k \in 1..Len(tiers) : tiers[k].name # tier_name
    \/ \E k \in 1..Len(tiers) :
          /\ tiers[k].name = tier_name
          /\ \A j \in 1..(k - 1) : tiers[j].name # tier_name
          /\ \/ tiers[k].tier_type = "PointTier"
             \/ start >= end
             \/ start < tiers[k].xmin
             \/ end > tiers[k].xmax

\* C21: insert_silence returns an error when the tier does not exist, is a
\* PointTier, start >= end, or start is below the tier's xmin or end above
\* its xmax; a call that returns an error records no Change and leaves the
\* bounds, the tiers and both stacks as they were.
C21_InsertSilenceRejects ==
    /\ [](\A tier_name \in SilenceNames, start \in SilenceTimes, end \in SilenceTimes :
             SilenceRejected(tier_name, start, end) =>
                 \E r \in {insert_silence(TG, tier_name, start, end)} :
                     r.res = "err" /\ r.tg = TG)
    /\ [][(last'.op = "insert_silence" /\ last'.res = "err") =>
             UNCHANGED <<xmin, xmax, tiers, history, redo_stack>>]_vars

\* A silence that lies inside the TextGrid but starts before tier "c" does
\* was refused; the tier holds nothing and no Change was recorded.
C21_Witness ==
    /\ last.op = "insert_silence"
    /\ last.res = "err"
    /\ last.msg = "Invalid silence bounds"
    /\ SilenceRejected("c", 0, 2)
    /\ ~SilenceRejected("a", 0, 2)
    /\ tiers[4].intervals = <<>>
    /\ history = <<>>

\* adjust_bounds(new_xmin, new_xmax) is a call the claim says fails: the
\* new bounds are not in order, or in some tier the first interval or point
\* starts before new_xmin or the last one ends after new_xmax.
BoundsRejected(new_xmin, new_xmax) ==
    \/ new_xmin >= new_xmax
    \/ \E k \in 1..Len(tiers) :
          \/ /\ tiers[k].intervals # <<>>
             /\ \/ Head(tiers[k].intervals).xmin < new_xmin
                \/ tiers[k].intervals[Len(tiers[k].intervals)].xmax > new_xmax
          \/ /\ tiers[k].points # <<>>
             /\ \/ Head(tiers[k].points).time < new_xmin
                \/ tiers[k].points[Len(tiers[k].points)].time > new_xmax

\* The tiers as they are, with the bounds of each set to [lo, hi].
Rebounded(lo, hi) ==
    [k \in 1..Len(tiers) |-> [tiers[k] EXCEPT !.xmin = lo, !.xmax = hi]]

C30_UndoRestoresTierBounds ==
    [][(last.op = "adjust_bounds" /\ last.res = "ok" /\ last'.op = "undo") =>
          /\ last'.res = "ok"
          /\ Len(tiers') = Len(Last(shadow).tiers)
          /\ \A k \in 1..Len(tiers') :
                /\ tiers'[k].xmin = Last(shadow).tiers[k].xmin
                /\ tiers'[k].xmax = Last(shadow).tiers[k].xmax]_vars

\* What the combinator of the claims returns for an overlapping pair: the
\* set holding the combined interval, or the empty set when it declines.
\* "default" is the combinator of merge_tiers, "decline" one that always
\* declines.
Combined(strategy, current, next) ==
    IF strategy = "default"
          /\ (current.text = next.text \/ current.text = "" \/ next.text = "")
    THEN {[xmin |-> current.xmin,
           xmax |-> IF next.xmax > current.xmax THEN next.xmax ELSE current.xmax,
           text |-> IF current.text # "" THEN current.text ELSE next.text]}
    ELSE {}

\* The result of the left-to-right sweep the claim describes over the list
\* c: after[k] is the list emitted and the current interval once c[k] has
\* been looked at.
Swept(strategy, c) ==
    LET after[k \in 1..Len(c)] ==
            IF k = 1 THEN [emitted |-> <<>>, current |-> c[1]]
            ELSE LET was == after[k - 1]
                     got == Combined(strategy, was.current, c[k])
                 IN  IF was.current.xmax > c[k].xmin /\ got # {}
                     THEN [emitted |-> was.emitted, current |-> CHOOSE v \in got : TRUE]
                     ELSE [emitted |-> Append(was.emitted, was.current),
                           current |-> c[k]]
    IN  IF c = <<>> THEN <<>>
        ELSE Append(after[Len(c)].emitted, after[Len(c)].current)

\* The intervals of the two tiers a merge call names, sorted by xmin.
UnionOf(name1, name2) ==
    sort_intervals(tiers[get_tier_mut(TG, name1) + 1].intervals
                   \o tiers[get_tier_mut(TG, name2) + 1].intervals)

\* C23: merge_tiers_with_strategy on two IntervalTiers succeeds, whatever
\* the combinator declines, and appends a tier whose intervals are the
\* result of one left-to-right sweep over the union of both tiers'
\* intervals sorted by xmin: when current.xmax > next.xmin and the
\* combinator returns an interval, that interval becomes current;
\* otherwise current is emitted and next becomes current.
C23_MergeSweep ==
    /\ [](\A name1 \in {"a", "b"}, name2 \in {"a", "b"}, strategy \in Strategies :
             \E r \in {merge_tiers_with_strategy(TG, name1, name2, "c", strategy)} :
                /\ r.res = "ok"
                /\ r.tg.tiers[Len(r.tg.tiers)].intervals =
                      Swept(strategy, UnionOf(name1, name2)))
    /\ [][(last'.op = "merge_tiers_with_strategy" /\ last'.res = "ok") =>
             /\ Len(tiers') = Len(tiers) + 1
             /\ SubSeq(tiers', 1, Len(tiers)) = tiers
             /\ tiers'[Len(tiers')].intervals =
                   Swept(last'.call.strategy,
                         UnionOf(last'.call.name1, last'.call.name2))]_vars

\* [0,2] "x" and [1,3] "" of tier "a" were combined to [0,3] "x"; [1,2] "y"
\* of tier "b" overlaps it, was declined and is kept overlapping.
C23_Witness ==
    /\ last.op = "merge_tiers_with_strategy"
    /\ last.res = "ok"
    /\ last.call.strategy = "default"
    /\ tiers[1].intervals = <<Interval(0, 2, "x"), Interval(1, 3, "")>>
    /\ tiers[2].intervals = <<Interval(1, 2, "y")>>
    /\ tiers[3].intervals = <<Interval(0, 3, "x"), Interval(1, 2, "y")>>

\* C24: merge_tiers combines two overlapping intervals exactly when their
\* texts are equal or at least one text is empty; the combined interval has
\* the current interval's xmin, the larger of the two xmax values and the
\* non-empty text; two overlapping intervals with different non-empty texts
\* are both kept.
C24_DefaultMerge ==
    [][(last'.op = "merge_tiers" /\ last'.res = "ok") =>
          \E c \in {UnionOf(last'.call.name1, last'.call.name2)} :
             /\ tiers'[Len(tiers')].intervals = Swept("default", c)
             /\ (Len(c) = 2 /\ c[1].xmax > c[2].xmin) =>
                   tiers'[Len(tiers')].intervals =
                      IF c[1].text = c[2].text \/ c[1].text = "" \/ c[2].text = ""
                      THEN <<[xmin |-> c[1].xmin,
                              xmax |-> IF c[1].xmax >= c[2].xmax THEN c[1].xmax
                                       ELSE c[2].xmax,
                              text |-> IF c[1].text = "" THEN c[2].text
                                       ELSE c[1].text]>>
                      ELSE c]_vars

\* merge_tiers("a", "b", "c") combined [0,3] "" and [1,2] "y" to [0,3] "y".
C24_Witness ==
    /\ last.op = "merge_tiers"
    /\ last.res = "ok"
    /\ tiers[1].intervals = <<Interval(0, 3, "")>>
    /\ tiers[2].intervals = <<Interval(1, 2, "y")>>
    /\ tiers[3].intervals = <<Interval(0, 3, "y")>>
    /\ last.call.name1 # last.call.name2

\* No two neighbours of the list both touch and have equal text.
NoMergeable(ivs) ==
    \A k \in 1..(Len(ivs) - 1) :
       ~(ivs[k].xmax = ivs[k + 1].xmin /\ ivs[k].text = ivs[k + 1].text)

\* The list is in order and no interval starts before the one in front of
\* it ends.
InOrderApart(ivs) ==
    \A k \in 1..(Len(ivs) - 1) : ivs[k].xmax <= ivs[k + 1].xmin

\* The step is a tier_merge_intervals right after a successful
\* tier_split_interval; Last(shadow) is then the Document before the split.
MergeAfterSplit ==
    /\ last.op = "tier_split_interval"
    /\ last.res = "ok"
    /\ last'.op = "tier_merge_intervals"

\* C25 as stated: in an IntervalTier in which no two adjacent intervals both
\* touch and have equal text, splitting an interval at a time strictly
\* inside it and then merging the tier's intervals restores the original
\* interval list.
C25_SplitThenMerge ==
    [][(MergeAfterSplit /\ NoMergeable(Last(shadow).tiers[1].intervals)) =>
          /\ last'.res = "ok"
          /\ tiers'[1].intervals = Last(shadow).tiers[1].intervals]_vars

\* C25 amended: the same, for an IntervalTier whose intervals are also in
\* order and do not overlap.
C25_SplitThenMergeInOrder ==
    [][(/\ MergeAfterSplit
        /\ NoMergeable(Last(shadow).tiers[1].intervals)
        /\ InOrderApart(Last(shadow).tiers[1].intervals)) =>
          /\ last'.res = "ok"
          /\ tiers'[1].intervals = Last(shadow).tiers[1].intervals]_vars

\* [0,2] "x" of the list [0,2] "x", [2,3] "y" was split at 1 and the merge
\* gave the list back.
C25_Witness ==
    /\ last.op = "tier_merge_intervals"
    /\ last.res = "ok"
    /\ Len(history) = 3
    /\ history[2].op = "SplitInterval"
    /\ history[2].orig = Interval(0, 2, "x")
    /\ history[3].op = "MergeIntervals"
    /\ history[3].before = <<Interval(0, 1, "x"), Interval(1, 2, "x"), Interval(2, 3, "y")>>
    /\ tiers[1].intervals = <<Interval(0, 2, "x"), Interval(2, 3, "y")>>

\* C26: in every reachable state the undo stack holds at most max_history
\* (100) Changes, and a successful edit made while it is full drops only the
\* oldest Change: the others keep their order and the new one comes last.
C26_HistoryCapped ==
    /\ [](Len(history) <= max_history)
    /\ [][IsEdit(last') =>
             /\ history' # <<>>
             /\ SubSeq(history', 1, Len(history') - 1) =
                    IF Len(history) >= max_history THEN Tail(history) ELSE history]_vars

\* The 101st edit in a row was recorded on a full stack: the add_tier that
\* came first was dropped and the stack still holds 100 Changes.
C26_Witness ==
    /\ IsEdit(last)
    /\ pat.n = max_history + 1
    /\ Len(history) = max_history
    /\ history[1].op # "AddTier"
    /\ history[max_history].op = "AddTier"

\* C27: when undo() or redo() returns an error because the target of the
\* Change cannot be located or the forward operation is rejected, the bounds,
\* the tiers and both stacks are as they were before the call: the Change
\* is not dropped.
C27_FailedUndoRedoKeepsChange ==
    [][(/\ last'.op \in {"undo", "redo"}
        /\ last'.res = "err"
        /\ last'.msg \notin {"No more actions to undo", "No more actions to redo"}) =>
          UNCHANGED <<xmin, xmax, tiers, history, redo_stack>>]_vars

\* C28: a successful undo() leaves the undo stack one Change shorter and the
\* redo stack one longer; a successful redo() leaves the undo stack one
\* Change longer; and an undo() that follows 'undo; redo' succeeds and ends
\* in the TextGrid the first undo ended in.
C28_UndoRedoUndo ==
    /\ [](\E first \in {undo(TG)} :
             first.res = "ok" =>
                \E again \in {redo(first.tg)} :
                   again.res = "ok" =>
                      \E third \in {undo(again.tg)} :
                         /\ third.res = "ok"
                         /\ Doc(third.tg) = Doc(first.tg))
    /\ [][(last'.op = "undo" /\ last'.res = "ok") =>
             /\ Len(history') = Len(history) - 1
             /\ Len(redo_stack') = Len(redo_stack) + 1]_vars
    /\ [][(last'.op = "redo" /\ last'.res = "ok") =>
             Len(history') = Len(history) + 1]_vars
    /\ [][(/\ last.op = "redo" /\ last.res = "ok"
            /\ pat.k >= 1 /\ pat.r = 1
            /\ last'.op = "undo") =>
             /\ last'.res = "ok"
             /\ DocNow' = Last(shadow)]_vars

\* C29: no undo() or redo() on a TextGrid built through add_tier removes or
\* inserts at an index outside the list: each one succeeds or returns an
\* error.
C29_UndoRedoNeverPanics ==
    last.op \in {"undo", "redo"} => last.res # "panic"

\* C31: an undo() right after a successful add_tier or
\* merge_tiers_with_strategy succeeds and removes exactly the tier that call
\* appended, the last one, leaving every other tier in place, also when
\* another tier carries the same name.
C31_UndoRemovesAppendedTier ==
    [][(/\ last.op \in {"add_tier", "merge_tiers_with_strategy"}
        /\ last.res = "ok"
        /\ last'.op = "undo") =>
          /\ last'.res = "ok"
          /\ tiers' = SubSeq(tiers, 1, Len(tiers) - 1)]_vars

\* C32: right after a successful adjust_bounds(new_xmin, new_xmax) every
\* interval and every point of every tier lies within
\* [new_xmin, new_xmax], also in a tier that tier_add_interval extended.
C32_DataWithinNewBounds ==
    [][(last'.op = "adjust_bounds" /\ last'.res = "ok") =>
          \A k \in 1..Len(tiers') :
             /\ \A j \in 1..Len(tiers'[k].intervals) :
                   /\ xmin' <= tiers'[k].intervals[j].xmin
                   /\ tiers'[k].intervals[j].xmax <= xmax'
             /\ \A j \in 1..Len(tiers'[k].points) :
                   /\ xmin' <= tiers'[k].points[j].time
                   /\ tiers'[k].points[j].time <= xmax']_vars

\* The intervals of the tier follow one another without gap or overlap from
\* the tier's xmin to its xmax.
CoversSpan(t) ==
    /\ t.intervals # <<>>
    /\ t.intervals[1].xmin = t.xmin
    /\ t.intervals[Len(t.intervals)].xmax = t.xmax
    /\ \A k \in 1..Len(t.intervals) : t.intervals[k].xmin < t.intervals[k].xmax
    /\ \A k \in 1..(Len(t.intervals) - 1) :
          t.intervals[k].xmax = t.intervals[k + 1].xmin

\* C33: if the intervals of the target tier are contiguous and cover the
\* tier's span exactly before a successful insert_silence, they are
\* contiguous, free of overlap and cover the span exactly after it.
C33_SilenceKeepsCover ==
    [][(last'.op = "insert_silence" /\ last'.res = "ok") =>
          \E i \in {get_tier_mut(TG, last'.call.tier_name) + 1} :
             CoversSpan(tiers[i]) => CoversSpan(tiers'[i])]_vars

\* The silence [1,3] was cut out of the cover [0,2] "x", [2,4] "y".
C33_Witness ==
    /\ last.op = "insert_silence"
    /\ last.res = "ok"
    /\ Len(shadow) = 1
    /\ CoversSpan(Last(shadow).tiers[1])
    /\ Last(shadow).tiers[1].intervals = <<Interval(0, 2, "x"), Interval(2, 4, "y")>>
    /\ tiers[1].intervals = <<Interval(0, 1, "x"), Interval(1, 3, ""), Interval(3, 4, "y")>>
    /\ CoversSpan(tiers[1])

\* The first tier of that name is missing or is a PointTier.
NotAnIntervalTier(name) ==
    \/ \A k \in 1..Len(tiers) : tiers[k].name # name
    \/ \E k \in 1..Len(tiers) :
          /\ tiers[k].name = name
          /\ \A j \in 1..(k - 1) : tiers[j].name # name
          /\ tiers[k].tier_type = "PointTier"

C35_MergeIntervals ==
    /\ [](\A k \in 1..Len(tiers) :
             \E r \in {merge_intervals(tiers[k])} :
                /\ r.ok
                /\ r.ret = tiers[k].intervals
                /\ NoMergeable(r.tier.intervals)
                /\ merge_intervals(r.tier).tier = r.tier)
    /\ [][(last'.op = "tier_merge_intervals" /\ last'.res = "ok") =>
             /\ history'[Len(history')].before = tiers[1].intervals
             /\ NoMergeable(tiers'[1].intervals)]_vars

\* The list ivs with the interval at position index (from 0) replaced by
\* its part up to time and its part from time on.
SplitAt(ivs, index, time) ==
    SubSeq(ivs, 1, index)
    \o <<[xmin |-> ivs[index + 1].xmin, xmax |-> time, text |-> ivs[index + 1].text],
         [xmin |-> time, xmax |-> ivs[index + 1].xmax, text |-> ivs[index + 1].text]>>
    \o SubSeq(ivs, index + 2, Len(ivs))

\* C36: Tier::split_interval(index, time) with a valid index and a time
\* strictly inside that interval replaces the interval by [xmin, time] and
\* [time, xmax] with the original text at positions index and index+1,
\* leaves every other interval in place and raises the count by one; it
\* fails when the index is invalid or the time is not strictly inside.
C36_SplitInterval ==
    /\ [](\A k \in 1..Len(tiers), index \in 0..(MaxItems + 2), time \in TierTimes :
             \E r \in {split_interval(tiers[k], index, time)} :
                IF /\ index < Len(tiers[k].intervals)
                   /\ tiers[k].intervals[index + 1].xmin < time
                   /\ time < tiers[k].intervals[index + 1].xmax
                THEN /\ r.ok
                     /\ r.tier.intervals = SplitAt(tiers[k].intervals, index, time)
                     /\ Len(r.tier.intervals) = Len(tiers[k].intervals) + 1
                     /\ [r.tier EXCEPT !.intervals = tiers[k].intervals] = tiers[k]
                ELSE ~r.ok)
    /\ [][(last'.op = "tier_split_interval" /\ last'.res = "ok") =>
             tiers'[1].intervals =
                SplitAt(tiers[1].intervals, last'.call.index, last'.call.time)]_vars

\* [1,3] "y", the second interval of the tier, was split at 2; [0,1] "x" in
\* front of it stayed.
C36_Witness ==
    /\ last.op = "tier_split_interval"
    /\ last.res = "ok"
    /\ last.call.index = 1
    /\ last.call.time = 2
    /\ Last(shadow).tiers[1].intervals = <<Interval(0, 1, "x"), Interval(1, 3, "y")>>
    /\ tiers[1].intervals = <<Interval(0, 1, "x"), Interval(1, 2, "y"), Interval(2, 3, "y")>>
    /\ ~split_interval(tiers[1], 3, 2).ok
    /\ ~split_interval(tiers[1], 1, 2).ok

\* res holds the values of all, each once, in the order of their keys, and
\* values of equal key in the order they have in all.  key_of_res and
\* key_of_all are the keys (xmin or time) of the values of res and of all.
SortedKeepingOrder(res, key_of_res, all, key_of_all) ==
    /\ Len(res) = Len(all)
    /\ \E f \in [1..Len(all) -> 1..Len(all)] :
          /\ \A i \in 1..Len(all) : res[i] = all[f[i]]
          /\ \A i \in 1..Len(all), j \in 1..Len(all) :
                i < j => \/ key_of_all[f[i]] < key_of_all[f[j]]
                         \/ key_of_all[f[i]] = key_of_all[f[j]] /\ f[i] < f[j]
    /\ \A i \in 1..(Len(res) - 1) : key_of_res[i] <= key_of_res[i + 1]

\* The intervals offered to add_interval and the points offered to
\* add_point in the check of C37.
C37_Intervals ==
    {[xmin |-> lo, xmax |-> hi, text |-> text] :
        lo \in Times, hi \in Times, text \in {"x", "y"}}

C37_Points == {[time |-> time, mark |-> mark] : time \in Times, mark \in {"m", "n"}}

\* C37: Tier::add_interval and Tier::add_point fail and leave the tier
\* unchanged when the tier's kind disagrees or the value's range or time
\* lies outside the tier's bounds; on success the tier's list is the
\* previous list plus the new value, sorted by xmin (or by time), values of
\* equal start kept in insertion order.
C37_AddSorted ==
    /\ [](\A k \in 1..Len(tiers), iv \in C37_Intervals :
             \E r \in {add_interval(tiers[k], iv)} :
                IF \/ tiers[k].tier_type # "IntervalTier"
                   \/ iv.xmin < tiers[k].xmin
                   \/ iv.xmax > tiers[k].xmax
                THEN ~r.ok /\ r.tier = tiers[k]
                ELSE /\ r.ok
                     /\ [r.tier EXCEPT !.intervals = tiers[k].intervals] = tiers[k]
                     /\ \E all \in {Append(tiers[k].intervals, iv)} :
                           SortedKeepingOrder(
                               r.tier.intervals,
                               [i \in 1..Len(r.tier.intervals) |-> r.tier.intervals[i].xmin],
                               all, [i \in 1..Len(all) |-> all[i].xmin]))
    /\ [](\A k \in 1..Len(tiers), p \in C37_Points :
             \E r \in {add_point(tiers[k], p)} :
                IF \/ tiers[k].tier_type # "PointTier"
                   \/ p.time < tiers[k].xmin
                   \/ p.time > tiers[k].xmax
                THEN ~r.ok /\ r.tier = tiers[k]
                ELSE /\ r.ok
                     /\ [r.tier EXCEPT !.points = tiers[k].points] = tiers[k]
                     /\ \E all \in {Append(tiers[k].points, p)} :
                           SortedKeepingOrder(
                               r.tier.points,
                               [i \in 1..Len(r.tier.points) |-> r.tier.points[i].time],
                               all, [i \in 1..Len(all) |-> all[i].time]))
    /\ [][(last'.op \in {"tier_add_interval", "tier_add_point"} /\ last'.res = "err") =>
             tiers' = tiers]_vars

\* tier_add_interval added [0,2] "x" to a tier holding [0,1] "x": both
\* start at 0 and the new one comes second.
C37_Witness ==
    /\ last.op = "tier_add_interval"
    /\ last.res = "ok"
    /\ last.call.interval = Interval(0, 2, "x")
    /\ tiers[1].intervals = <<Interval(0, 1, "x"), Interval(0, 2, "x")>>
    /\ Last(shadow).tiers[1].intervals = <<Interval(0, 1, "x")>>

\* The strings write_binary wrote for the Document d: the tier names, the
\* interval texts and the point marks.
StringsOf(d) ==
    {d.tiers[k].name : k \in 1..Len(d.tiers)}
    \cup UNION {{d.tiers[k].intervals[j].text : j \in 1..Len(d.tiers[k].intervals)} :
                   k \in 1..Len(d.tiers)}
    \cup UNION {{d.tiers[k].points[j].mark : j \in 1..Len(d.tiers[k].points)} :
                   k \in 1..Len(d.tiers)}

\* C38: for every string of a Document written by write_binary, of whatever
\* length, the 16-bit prefix written in front of it equals the number of
\* bytes that follow, and read_binary's reading of the prefixed string gives
\* the string back.
C38_LengthPrefix ==
    file.ext = "textgridbin" =>
        \A s \in StringsOf(file.doc) :
           \E b \in {bin_string(s)} :
              /\ u16_from_le(SubSeq(b, 1, 2)) = Len(b) - 2
              /\ \E r \in {read_string(b, 0)} : r.res = "ok" /\ r.val = s

====
